---- MODULE Spec2Model ----
(***************************************************************************)
(* A model of the promise / completer pair of futures-rs (src/promise.rs). *)
(*                                                                         *)
(* Two threads act on one Promise/Complete pair that share an Inner        *)
(* (a Slot and the pending_wake flag): the driver thread owns the Promise  *)
(* and calls poll, schedule and drop serially; the completer thread owns   *)
(* the Complete and calls finish, fail or drops it.  Every access to the   *)
(* shared Inner (an atomic load or store of pending_wake, one operation of *)
(* the slot) is one step, so the two threads interleave between any two    *)
(* shared accesses.  Other threads call promise() too and draw token ids   *)
(* from the same static COUNT.                                             *)
(*                                                                         *)
(* The Slot, Tokens and util modules are not part of the sources at hand;  *)
(* their operations are modelled from the slot contract and the data model *)
(* of the specification.                                                   *)
(*                                                                         *)
(* Done, Failed, Select and SelectNext (src/done.rs, src/failed.rs,        *)
(* src/select.rs) are driven by one caller, call after call (FutSpec); the *)
(* children of the Select are Done, Failed, empty(), promises whose        *)
(* Complete acts between two calls, and combinators in their second stage. *)
(*                                                                         *)
(* The chains of tests/eager_drop.rs (a source future, two combinators out *)
(* of map, map_err and and_then, and forget) are polled step by step       *)
(* (ChainSpec); the combinators and forget are not part of the sources at  *)
(* hand and are modelled from the specification.                           *)
(***************************************************************************)
EXTENDS Integers, Sequences, FiniteSets, TLC

\* ---------------------------------------------------------------- bounds
MaxPolls == 2          \* polls a driver makes that polls as it likes
MaxDrivenPolls == 3    \* polls a driver makes that polls when woken
MaxSchedules == 2      \* schedule calls the driver makes
MaxPromiseCalls == 3   \* calls of promise() over all threads
UsizeBits == 1         \* width of usize in the model (COUNT wraps at 2^UsizeBits)
MaxLeafCalls == 3      \* calls a driver makes of a Done and of a Failed
MaxSelCalls == 4       \* calls a driver makes of a Select and its SelectNext

\* ------------------------------------------------------------- constants
ATOMIC_USIZE_INIT == 0

\* The values and errors a completer produces, and the wakers a driver hands
\* to schedule.
Vals == {1, 2}
Wakers == {"w1", "w2"}
Modulus == 2^UsizeBits

\* ---------------------------------------------------------------- Tokens
TokensAll == [all |-> TRUE, ids |-> {}]
TokensFromUsize(u) == [all |-> FALSE, ids |-> {u}]
NoTokens == [all |-> FALSE, ids |-> {}]

\* ------------------------------------------------------------------ Slot
\* The slot holds Option<Result<T, E>>: "None" is the value a dropped
\* Complete produces, "Empty" is the slot holding nothing.
SlotEmpty == [kind |-> "Empty", val |-> 0]
ProdNone == [kind |-> "None", val |-> 0]
ProdOk(v) == [kind |-> "SomeOk", val |-> v]
ProdErr(e) == [kind |-> "SomeErr", val |-> e]

\* An on_full callback as installed by Promise::schedule: the slot token it
\* was registered under, the waker and tokens its closure captured, and the
\* schedule call that installed it.  NoCb stands for no callback.
NoCb == [tok |-> 0, call |-> 0, wake |-> "none", tokens |-> NoTokens]

\* slot.cancel(token): revokes the callback registered under the token if it
\* has not fired.  cbs is the set of callbacks installed on the slot.
SlotCancel(cbs, tok) == {c \in cbs : c.tok # tok}

\* The callbacks a slot that became full hands to the producing thread, in
\* the order of their registration.
RECURSIVE SlotFire(_)
SlotFire(cbs) ==
    IF cbs = {} THEN <<>>
    ELSE LET first == CHOOSE c \in cbs : \A d \in cbs : c.tok <= d.tok
         IN <<first>> \o SlotFire(cbs \ {first})

\* ----------------------------------------------------------- poll results
RetNone == [kind |-> "None", val |-> 0]
RetOk(v) == [kind |-> "Ok", val |-> v]
RetOther(e) == [kind |-> "Other", val |-> e]
RetCanceled == [kind |-> "Canceled", val |-> 0]
RetReused == [kind |-> "Reused", val |-> 0]

IsSome(r) == r.kind # "None"

VARIABLES
    COUNT,          \* static COUNT: AtomicUsize of promise()
    issued,         \* token ids handed out by promise(), in the order of the
                    \* fetch_add, each with whether COUNT had wrapped before it
    wrapped,        \* COUNT has wrapped around
    created,        \* the pair under observation has been created
    slot,           \* Inner.slot: what the slot holds
    on_full,        \* the on_full callbacks installed on the slot and not yet fired
    on_empty,       \* the value queued by an on_empty callback (SlotEmpty: none)
    next_tok,       \* the slot's next cancellation token
    pending_wake,   \* Inner.pending_wake
    cancel_token,   \* Promise.cancel_token (0: None)
    used,           \* Promise.used
    token,          \* Promise.token
    p_alive,        \* the Promise has not been dropped
    completed,      \* Complete.completed
    dropRan,        \* Drop for Complete has run
    dpc,            \* driver thread: position inside poll / schedule
    d_cb,           \* driver thread: callbacks to run inline, the first one running
    d_op,           \* driver thread: the call in progress ("poll" / "schedule")
    d_poll,         \* driver thread: the record of the poll in progress
    cpc,            \* completer thread: position
    c_cb,           \* completer thread: callbacks to run, the first one running
    outcome,        \* what the completer did: finish(v), fail(e), drop
    produced,       \* a try_produce of the completer has filled the slot
    prodCount,      \* number of productions into the slot
    fullOnProduce,  \* a try_produce found the slot full
    prodAfterDrop,  \* the production happened after the Promise was dropped
    armedAtDrop,    \* an on_full callback was armed when the Promise was dropped
    wakesAtDrop,    \* wake invocations made before the Promise was dropped
    polls,          \* record of every poll that returned
    calls,          \* record of every schedule call
    wakeSignal,     \* a waker fired since the last poll began
    driverLast,     \* the driver's last completed call
    done_inner,     \* Done.inner of the future made by done(r)
    failed_e,       \* Failed.e of the future made by failed(e)
    done_r,         \* the r given to done(r)
    failed_arg,     \* the e given to failed(e)
    leaf_polls,     \* polls made of the Done and of the Failed
    leaf_n,         \* calls made of the Done and of the Failed
    done_last,      \* the last call made of the Done and what it answered
    failed_last,    \* the last call made of the Failed and what it answered
    sel_inner,      \* Select.inner: "Some" or "None" ("Unmade" before select::new)
    kids,           \* the two futures given to select::new, each in its Collapsed
    a_tokens,       \* Select.a_tokens
    b_tokens,       \* Select.b_tokens
    holder,         \* who owns each child: the Select, the SelectNext, the
                    \* caller (a tailcall handed it out) or nobody (dropped)
    sel_sched,      \* Select::schedule has been called
    sel_n,          \* calls made of the Select and the SelectNext
    sel_last,       \* the last call made of the Select or the SelectNext
    sel_wakes,      \* the wakes made by slot callbacks of the children
    ch_kinds,       \* the chain built: its source and its two combinators
    ch_src,         \* the source future of the chain and the data it owns
    ch_f,           \* the closure of each combinator: held, called or dropped
    ch_pc,          \* where forget() stands with the chain
    ch_at,          \* the combinator whose poll is handling the result
    ch_ops,         \* what that combinator has yet to do with the result
    ch_res,         \* the result on its way up the chain
    ch_seen         \* what each closure found when it was invoked

vars == <<COUNT, issued, wrapped, created, slot, on_full, on_empty, next_tok,
          pending_wake, cancel_token, used, token, p_alive, completed, dropRan,
          dpc, d_cb, d_op, d_poll, cpc, c_cb, outcome, produced, prodCount,
          fullOnProduce, prodAfterDrop, armedAtDrop, wakesAtDrop, polls, calls,
          wakeSignal, driverLast,
          done_inner, failed_e, done_r, failed_arg, leaf_polls, leaf_n,
          done_last, failed_last,
          sel_inner, kids, a_tokens, b_tokens, holder, sel_sched, sel_n,
          sel_last, sel_wakes,
          ch_kinds, ch_src, ch_f, ch_pc, ch_at, ch_ops, ch_res, ch_seen>>

counterVars == <<COUNT, issued, wrapped>>
slotVars == <<slot, on_full, on_empty, next_tok>>
promiseVars == <<cancel_token, used, token, p_alive>>
completeVars == <<completed, dropRan>>
driverVars == <<dpc, d_cb, d_op, d_poll>>
completerVars == <<cpc, c_cb>>
prodVars == <<outcome, produced, prodCount, fullOnProduce, prodAfterDrop>>
dropVars == <<armedAtDrop, wakesAtDrop>>
logVars == <<polls, calls, wakeSignal, driverLast>>
promiseWorld == <<counterVars, created, slotVars, pending_wake, promiseVars,
                  completeVars, driverVars, completerVars, prodVars, dropVars,
                  logVars>>
leafVars == <<done_inner, failed_e, done_r, failed_arg, leaf_polls, leaf_n,
              done_last, failed_last>>
selVars == <<sel_inner, kids, a_tokens, b_tokens, holder, sel_sched, sel_n,
            sel_last, sel_wakes>>
chainVars == <<ch_kinds, ch_src, ch_f, ch_pc, ch_at, ch_ops, ch_res, ch_seen>>
seqVars == <<leafVars, selVars, chainVars>>

\* A future that has not been made yet, and the record of no call.
Unmade == [kind |-> "Unmade", val |-> 0]
NoCall == [op |-> "none", arg |-> NoTokens, w |-> "none", ret |-> RetNone,
           tokens |-> NoTokens, wakes |-> <<>>, tail |-> "None", nth |-> 0]

\* The two children of a Select.
Sides == {"A", "B"}

\* A child future inside its Collapsed.  form is the Collapsed variant; wrap
\* says the future is a combinator in its second stage that forwards to the
\* follow-up the other fields describe; kind is the future's type; opt is
\* Done.inner, Failed.e or what the slot of a Promise holds; pw, used, tok
\* are pending_wake, used and token of a Promise, cb the waker of its armed
\* slot callback, fin whether its Complete has produced.
NoFuture == [form |-> "Start", wrap |-> FALSE, kind |-> "None", opt |-> SlotEmpty,
             pw |-> FALSE, used |-> FALSE, tok |-> 0, cb |-> "none", fin |-> FALSE]

\* What Select::poll and SelectNext::poll return: the result and, inside
\* it, the child the SelectNext wraps ("none": there is no SelectNext).
SelRet(kind, val, next) == [kind |-> kind, val |-> val, next |-> next]

NoSelCall == [on |-> "none", op |-> "none", arg |-> NoTokens, w |-> "none",
              ret |-> SelRet("None", 0, "none"), tokens |-> NoTokens,
              wakes |-> <<>>, tail |-> "None", polled |-> <<>>,
              scheduled |-> <<>>, before |-> "Unmade", schedBefore |-> FALSE,
              resolvedBefore |-> FALSE,
              holdAfter |-> [s \in Sides |-> "select"],
              kidsBefore |-> [s \in Sides |-> NoFuture],
              kidsAfter |-> [s \in Sides |-> NoFuture], handed |-> NoFuture,
              prev |-> [on |-> "none", op |-> "none", tail |-> "None",
                        handed |-> NoFuture]]

\* A chain that has not been built, and a closure that was not invoked.
NoChain == [src |-> "none", k1 |-> "none", k2 |-> "none"]
NoSource == [alive |-> FALSE, opt |-> SlotEmpty, fin |-> FALSE]
NoSeen == [called |-> FALSE, srcAlive |-> FALSE, srcFin |-> FALSE,
           upHeld |-> FALSE, arg |-> RetNone]

NoPoll == [prodAtStart |-> FALSE, afterWake |-> FALSE, ret |-> RetNone]

Init ==
    /\ COUNT = ATOMIC_USIZE_INIT
    /\ issued = <<>>
    /\ wrapped = FALSE
    /\ created = FALSE
    /\ slot = SlotEmpty
    /\ on_full = {}
    /\ on_empty = SlotEmpty
    /\ next_tok = 1
    /\ pending_wake = FALSE
    /\ cancel_token = 0
    /\ used = FALSE
    /\ token = 0
    /\ p_alive = TRUE
    /\ completed = FALSE
    /\ dropRan = FALSE
    /\ dpc = "idle"
    /\ d_cb = <<>>
    /\ d_op = "none"
    /\ d_poll = NoPoll
    /\ cpc = "start"
    /\ c_cb = <<>>
    /\ outcome = [kind |-> "none", val |-> 0]
    /\ produced = FALSE
    /\ prodCount = 0
    /\ fullOnProduce = FALSE
    /\ prodAfterDrop = FALSE
    /\ armedAtDrop = FALSE
    /\ wakesAtDrop = 0
    /\ polls = <<>>
    /\ calls = <<>>
    /\ wakeSignal = FALSE
    /\ driverLast = "none"
    /\ done_inner = Unmade
    /\ failed_e = Unmade
    /\ done_r = Unmade
    /\ failed_arg = Unmade
    /\ leaf_polls = 0
    /\ leaf_n = 0
    /\ done_last = NoCall
    /\ failed_last = NoCall
    /\ sel_inner = "Unmade"
    /\ kids = [s \in Sides |-> NoFuture]
    /\ a_tokens = TokensAll
    /\ b_tokens = TokensAll
    /\ holder = [s \in Sides |-> "select"]
    /\ sel_sched = FALSE
    /\ sel_n = 0
    /\ sel_last = NoSelCall
    /\ sel_wakes = <<>>
    /\ ch_kinds = NoChain
    /\ ch_src = NoSource
    /\ ch_f = <<"none", "none">>
    /\ ch_pc = "unmade"
    /\ ch_at = 1
    /\ ch_ops = <<>>
    /\ ch_res = RetNone
    /\ ch_seen = <<NoSeen, NoSeen>>


\* ------------------------------------------------------------- promise()
\* COUNT.fetch_add(1, SeqCst): the new value of the counter (the call returns
\* the old one).
\* A fetch_add that leaves the counter as it was.
FetchAdd_stale(c) == c

FetchAdd(c) == (c + 1) % Modulus

\* A call of promise() by any thread: one atomic fetch_add.  The call with
\* observed = TRUE creates the pair whose protocol is followed below; its
\* Inner starts with an empty slot and pending_wake = false.  A call shares
\* nothing but COUNT with the pairs of other calls, and a pair reads COUNT
\* only in its own call: the calls of other threads are followed up to the
\* one that creates the pair under observation.
promise(observed) ==
    /\ Len(issued) < MaxPromiseCalls
    /\ ~created
    /\ COUNT' = FetchAdd(COUNT)
    /\ issued' = Append(issued, [id |-> COUNT, wrapped |-> wrapped])
    /\ wrapped' = (wrapped \/ COUNT' < COUNT)
    /\ created' = (created \/ observed)
    /\ token' = IF observed THEN COUNT ELSE token
    /\ UNCHANGED <<seqVars, slotVars, pending_wake, cancel_token, used,
                   p_alive, completeVars, driverVars, completerVars, prodVars,
                   dropVars, logVars>>

\* --------------------------------------------------------- wake log
RECURSIVE SumWoken(_)
SumWoken(cs) == IF cs = <<>> THEN 0 ELSE Head(cs).woken + SumWoken(Tail(cs))

\* wake.wake(&tokens) of the waker given to schedule call cb.call.
WakeCalls(cs, cb) ==
    [cs EXCEPT ![cb.call].woken = @ + 1,
               ![cb.call].wtokens = @ \cup {cb.tokens}]

\* ------------------------------------------------ the on_full callback
\* The closure installed by schedule: pending_wake.store(false), then
\* wake.wake(&wake_tokens).
\* The closure without its store to pending_wake.
CallbackBody_noStore == <<"wake">>

\* The closure with its two statements swapped.
CallbackBody_wakeFirst == <<"wake", "store">>

CallbackBody == <<"store", "wake">>

\* A thread running callbacks is at "cb1" or "cb2": the statement of the
\* closure it executes next.  After the last statement of the last callback
\* it goes on at `after`.
CbStage(pc) == IF pc = "cb1" THEN 1 ELSE 2
CbLast(pc) == CbStage(pc) >= Len(CallbackBody)
CbNext(pc, cbs, after) ==
    IF ~CbLast(pc) THEN "cb2" ELSE IF Len(cbs) > 1 THEN "cb1" ELSE after
CbRest(pc, cbs) == IF CbLast(pc) THEN Tail(cbs) ELSE cbs

CallbackEffect(cb, pc) ==
    IF CallbackBody[CbStage(pc)] = "store"
    THEN /\ pending_wake' = FALSE
         /\ UNCHANGED <<calls, wakeSignal>>
    ELSE /\ calls' = WakeCalls(calls, cb)
         /\ wakeSignal' = TRUE
         /\ UNCHANGED pending_wake

\* ------------------------------------------------------------- Complete
\* Complete::complete: try_produce, and on_empty if the slot is full.  A
\* successful try_produce takes the registered on_full callback, which this
\* thread then runs.
Complete_complete(t, after) ==
    IF slot = SlotEmpty
    THEN /\ slot' = t
         /\ c_cb' = SlotFire(on_full)
         /\ on_full' = {}
         /\ produced' = TRUE
         /\ prodCount' = prodCount + 1
         /\ prodAfterDrop' = (prodAfterDrop \/ ~p_alive)
         /\ cpc' = IF on_full # {} THEN "cb1" ELSE after
         /\ UNCHANGED <<on_empty, next_tok, fullOnProduce>>
    ELSE /\ on_empty' = t
         /\ fullOnProduce' = TRUE
         /\ cpc' = after
         /\ UNCHANGED <<slot, on_full, next_tok, c_cb, produced, prodCount,
                        prodAfterDrop>>

\* self.completed = true in finish and fail.
\* finish and fail without the assignment to self.completed.
SetCompleted_unset == FALSE

SetCompleted == TRUE

\* if !self.completed in Drop for Complete.
\* A Drop for Complete that never produces.
DropCompletes_never == FALSE

\* A Drop for Complete that produces None whatever self.completed says.
DropCompletes_always == TRUE

DropCompletes == ~completed

Complete_finish(v) ==
    /\ created /\ cpc = "start"
    /\ completed' = SetCompleted
    /\ outcome' = [kind |-> "finish", val |-> v]
    /\ Complete_complete(ProdOk(v), "drop")
    /\ UNCHANGED <<seqVars, counterVars, created, pending_wake, promiseVars, dropRan,
                   driverVars, dropVars, logVars>>

Complete_fail(e) ==
    /\ created /\ cpc = "start"
    /\ completed' = SetCompleted
    /\ outcome' = [kind |-> "fail", val |-> e]
    /\ Complete_complete(ProdErr(e), "drop")
    /\ UNCHANGED <<seqVars, counterVars, created, pending_wake, promiseVars, dropRan,
                   driverVars, dropVars, logVars>>

\* Drop for Complete: runs when the handle is dropped by its owner, and at
\* the end of finish and fail, which take self by value.
Complete_drop ==
    /\ created /\ cpc \in {"start", "drop"}
    /\ dropRan' = TRUE
    /\ outcome' = IF outcome.kind = "none"
                  THEN [kind |-> "drop", val |-> 0] ELSE outcome
    /\ IF DropCompletes
       THEN Complete_complete(ProdNone, "done")
       ELSE /\ cpc' = "done"
            /\ UNCHANGED <<slotVars, c_cb, produced, prodCount, fullOnProduce,
                           prodAfterDrop>>
    /\ UNCHANGED <<seqVars, counterVars, created, pending_wake, promiseVars, completed,
                   driverVars, dropVars, logVars>>

\* The completer thread runs the callback try_produce took.
Complete_callback ==
    /\ cpc \in {"cb1", "cb2"}
    /\ CallbackEffect(Head(c_cb), cpc)
    /\ cpc' = CbNext(cpc, c_cb, IF dropRan THEN "done" ELSE "drop")
    /\ c_cb' = CbRest(cpc, c_cb)
    /\ UNCHANGED <<seqVars, counterVars, created, slotVars, promiseVars, completeVars,
                   driverVars, prodVars, dropVars, polls, driverLast>>


\* -------------------------------------------------------- Promise::poll
\* The match on slot.try_consume(): r is what the slot held ("Empty": Err).
\* The match without the guard `if self.used` on its fourth arm.
PollMatch_unguarded(r, u) ==
    CASE r.kind = "SomeOk" -> RetOk(r.val)
      [] r.kind = "SomeErr" -> RetOther(r.val)
      [] r.kind = "None" -> RetCanceled
      [] OTHER -> RetReused

PollMatch(r, u) ==
    CASE r.kind = "SomeOk" -> RetOk(r.val)
      [] r.kind = "SomeErr" -> RetOther(r.val)
      [] r.kind = "None" -> RetCanceled
      [] r.kind = "Empty" /\ u -> RetReused
      [] OTHER -> RetNone

\* self.used = true, reached when the match did not return None.
\* A poll that does not record that it returned Some.
UsedAfter_unset(u, ret) == u

UsedAfter(u, ret) == IF IsSome(ret) THEN TRUE ELSE u

PollRecord(start, gated, ret) ==
    [prodAtStart |-> start.prodAtStart, afterWake |-> start.afterWake,
     gated |-> gated, prodAtEnd |-> produced, ret |-> ret]

PollStart == [prodAtStart |-> produced, afterWake |-> wakeSignal, ret |-> RetNone]

LastOf(ret) == IF IsSome(ret) THEN "pollSome" ELSE "pollNone"

\* if self.inner.pending_wake.load(Ordering::SeqCst) { return None }
\* A poll that goes on to the slot whatever the flag says.
Promise_poll_gated_never(pw) == FALSE

Promise_poll_gated(pw) == pw

\* poll, up to the load of pending_wake: returns None if it is set.
Promise_poll_load(limit) ==
    /\ created /\ p_alive /\ dpc = "idle"
    /\ Len(polls) < limit
    /\ wakeSignal' = FALSE
    /\ IF Promise_poll_gated(pending_wake)
       THEN /\ polls' = Append(polls, PollRecord(PollStart, TRUE, RetNone))
            /\ driverLast' = "pollNone"
            /\ UNCHANGED driverVars
       ELSE /\ dpc' = "poll_consume"
            /\ d_op' = "poll"
            /\ d_poll' = PollStart
            /\ UNCHANGED <<d_cb, polls, driverLast>>
    /\ UNCHANGED <<seqVars, counterVars, created, slotVars, pending_wake, promiseVars,
                   completeVars, completerVars, prodVars, dropVars, calls>>

\* poll, from slot.try_consume() on.  Emptying the slot runs a queued
\* on_empty callback of Complete::complete, which produces again.
Promise_poll_consume ==
    /\ dpc = "poll_consume"
    /\ LET ret == PollMatch(slot, used)
           refill == slot # SlotEmpty /\ on_empty # SlotEmpty
           inline == refill /\ on_full # {}
       IN /\ slot' = IF refill THEN on_empty ELSE SlotEmpty
          /\ on_empty' = IF slot # SlotEmpty THEN SlotEmpty ELSE on_empty
          /\ prodCount' = IF refill THEN prodCount + 1 ELSE prodCount
          /\ used' = UsedAfter(used, ret)
          /\ IF inline
             THEN /\ on_full' = {}
                  /\ d_cb' = SlotFire(on_full)
                  /\ d_poll' = [d_poll EXCEPT !.ret = ret]
                  /\ dpc' = "cb1"
                  /\ UNCHANGED <<d_op, polls, driverLast>>
             ELSE /\ polls' = Append(polls, PollRecord(d_poll, FALSE, ret))
                  /\ driverLast' = LastOf(ret)
                  /\ dpc' = "idle"
                  /\ d_op' = "none"
                  /\ d_poll' = NoPoll
                  /\ UNCHANGED <<on_full, d_cb>>
    /\ UNCHANGED <<seqVars, counterVars, created, next_tok, pending_wake, cancel_token,
                   token, p_alive, completeVars, completerVars, outcome,
                   produced, fullOnProduce, prodAfterDrop, dropVars, calls,
                   wakeSignal>>

\* ---------------------------------------------------- Promise::schedule
CallRecord(w, resolved) ==
    [w |-> w, ret |-> NoTokens, returned |-> FALSE, resolved |-> resolved,
     prodAtStart |-> produced, prodAtReturn |-> FALSE, woken |-> 0,
     wtokens |-> {}, wokenAtReturn |-> 0]

SchedReturn(cs, i, ret) ==
    [cs EXCEPT ![i].ret = ret, ![i].returned = TRUE,
               ![i].prodAtReturn = produced, ![i].wokenAtReturn = cs[i].woken]

\* util::done(wake): wakes at once with Tokens::all().
UtilDone(cs, i) ==
    SchedReturn(WakeCalls(cs, [NoCb EXCEPT !.call = i, !.tokens = TokensAll]),
                i, TokensAll)

\* The tokens schedule returns and hands to its callback.
\* A schedule that answers Tokens::all().
ScheduleTokens_all == TokensAll

ScheduleTokens == TokensFromUsize(token)

\* schedule, up to the load of pending_wake: a used promise wakes at once
\* through util::done; otherwise the load decides whether the previous
\* registration is cancelled.
Promise_schedule_load(w) ==
    /\ created /\ p_alive /\ dpc = "idle"
    /\ Len(calls) < MaxSchedules
    /\ IF used
       THEN /\ calls' = UtilDone(Append(calls, CallRecord(w, TRUE)), Len(calls) + 1)
            /\ wakeSignal' = TRUE
            /\ driverLast' = "schedule"
            /\ UNCHANGED <<driverVars, cancel_token>>
       ELSE /\ calls' = Append(calls, CallRecord(w, FALSE))
            /\ d_op' = "schedule"
            /\ IF pending_wake /\ cancel_token # 0
               THEN dpc' = "sched_cancel" /\ UNCHANGED cancel_token
               ELSE dpc' = "sched_store" /\ UNCHANGED cancel_token
            /\ UNCHANGED <<d_cb, d_poll, wakeSignal, driverLast>>
    /\ UNCHANGED <<seqVars, counterVars, created, slotVars, pending_wake, used, token,
                   p_alive, completeVars, completerVars, prodVars, dropVars,
                   polls>>

\* self.inner.slot.cancel(cancel_token) of the token taken from self.
\* A schedule that leaves the previous registration in place.
Schedule_cancel_skipped == on_full

Schedule_cancel == SlotCancel(on_full, cancel_token)

Promise_schedule_cancel ==
    /\ dpc = "sched_cancel"
    /\ on_full' = Schedule_cancel
    /\ cancel_token' = 0
    /\ dpc' = "sched_store"
    /\ UNCHANGED <<seqVars, counterVars, created, slot, on_empty, next_tok, pending_wake,
                   used, token, p_alive, completeVars, d_cb, d_op, d_poll,
                   completerVars, prodVars, dropVars, logVars>>

\* self.inner.pending_wake.store(true)
Promise_schedule_store ==
    /\ dpc = "sched_store"
    /\ pending_wake' = TRUE
    /\ dpc' = "sched_on_full"
    /\ UNCHANGED <<seqVars, counterVars, created, slotVars, promiseVars, completeVars,
                   d_cb, d_op, d_poll, completerVars, prodVars, dropVars,
                   logVars>>

\* self.inner.slot.on_full(callback): a full slot runs the callback at once,
\* on this thread; an empty one keeps it.  The token it returns becomes
\* self.cancel_token; without an inline callback schedule returns here.
Promise_schedule_on_full ==
    /\ dpc = "sched_on_full"
    /\ LET i == Len(calls)
           cb == [tok |-> next_tok, call |-> i, wake |-> calls[i].w,
                  tokens |-> ScheduleTokens]
       IN /\ next_tok' = next_tok + 1
          /\ cancel_token' = cb.tok
          /\ IF slot # SlotEmpty
             THEN /\ d_cb' = <<cb>>
                  /\ dpc' = "cb1"
                  /\ UNCHANGED <<on_full, d_op, calls, driverLast>>
             ELSE /\ on_full' = on_full \cup {cb}
                  /\ calls' = SchedReturn(calls, i, ScheduleTokens)
                  /\ driverLast' = "schedule"
                  /\ dpc' = "idle"
                  /\ d_op' = "none"
                  /\ UNCHANGED d_cb
    /\ UNCHANGED <<seqVars, counterVars, created, slot, on_empty, pending_wake, used,
                   token, p_alive, completeVars, d_poll, completerVars,
                   prodVars, dropVars, polls, wakeSignal>>

\* The driver thread runs a callback the slot handed it inline.
Promise_callback ==
    /\ dpc \in {"cb1", "cb2"}
    /\ CallbackEffect(Head(d_cb), dpc)
    /\ dpc' = CbNext(dpc, d_cb, "return")
    /\ d_cb' = CbRest(dpc, d_cb)
    /\ UNCHANGED <<seqVars, counterVars, created, slotVars, promiseVars, completeVars,
                   d_op, d_poll, completerVars, prodVars, dropVars, polls,
                   driverLast>>

\* The call that ran an inline callback returns.
Promise_return ==
    /\ dpc = "return"
    /\ IF d_op = "schedule"
       THEN /\ calls' = SchedReturn(calls, Len(calls), ScheduleTokens)
            /\ driverLast' = "schedule"
            /\ UNCHANGED polls
       ELSE /\ polls' = Append(polls, PollRecord(d_poll, FALSE, d_poll.ret))
            /\ driverLast' = LastOf(d_poll.ret)
            /\ UNCHANGED calls
    /\ dpc' = "idle"
    /\ d_op' = "none"
    /\ d_poll' = NoPoll
    /\ UNCHANGED <<seqVars, counterVars, created, slotVars, pending_wake, promiseVars,
                   completeVars, d_cb, completerVars, prodVars, dropVars,
                   wakeSignal>>

\* -------------------------------------------------------- Drop for Promise
\* The on_full registration after the drop.
\* A Drop for Promise that leaves the registration in place.
Promise_drop_cancel_skipped == on_full

Promise_drop_cancel ==
    IF cancel_token # 0 THEN SlotCancel(on_full, cancel_token) ELSE on_full

Promise_drop ==
    /\ created /\ p_alive /\ dpc = "idle"
    /\ p_alive' = FALSE
    /\ on_full' = Promise_drop_cancel
    /\ cancel_token' = 0
    /\ armedAtDrop' = (on_full # {})
    /\ wakesAtDrop' = SumWoken(calls)
    /\ driverLast' = "drop"
    /\ UNCHANGED <<seqVars, counterVars, created, slot, on_empty, next_tok, pending_wake,
                   used, token, completeVars, driverVars, completerVars,
                   prodVars, polls, calls, wakeSignal>>

\* ----------------------------------------------------------- specification
CompleterNext ==
    \/ \E v \in Vals : Complete_finish(v)
    \/ \E e \in Vals : Complete_fail(e)
    \/ Complete_drop
    \/ Complete_callback

DriverStep ==
    \/ Promise_poll_consume
    \/ Promise_schedule_cancel
    \/ Promise_schedule_store
    \/ Promise_schedule_on_full
    \/ Promise_callback
    \/ Promise_return

Next ==
    \/ \E o \in BOOLEAN : promise(o)
    \/ CompleterNext
    \/ Promise_poll_load(MaxPolls)
    \/ \E w \in Wakers : Promise_schedule_load(w)
    \/ DriverStep
    \/ Promise_drop

Spec == Init /\ [][Next]_vars


\* ------------------------------------------------ a driver that polls when woken
\* The driver of the Future contract: it polls, calls schedule when the poll
\* returns None, and polls again when the waker has fired; it drops the
\* promise after the terminal result.  Wakers may also fire spuriously.
Driven_poll ==
    /\ driverLast = "none" \/ (driverLast = "schedule" /\ wakeSignal)
    /\ Promise_poll_load(MaxDrivenPolls)

Driven_schedule ==
    /\ driverLast = "pollNone"
    /\ \E w \in Wakers : Promise_schedule_load(w)

Driven_drop ==
    /\ driverLast = "pollSome"
    /\ Promise_drop

\* A spurious wake of the waiting driver; it leaves the driver the polls and
\* the schedule call it needs to come back to waiting.
SpuriousWake ==
    /\ created /\ p_alive /\ dpc = "idle"
    /\ driverLast = "schedule" /\ ~wakeSignal
    /\ Len(polls) + 2 <= MaxDrivenPolls
    /\ Len(calls) + 1 <= MaxSchedules
    /\ wakeSignal' = TRUE
    /\ UNCHANGED <<seqVars, counterVars, created, slotVars, pending_wake, promiseVars,
                   completeVars, driverVars, completerVars, prodVars, dropVars,
                   polls, calls, driverLast>>

DrivenDriver == Driven_poll \/ Driven_schedule \/ DriverStep

DrivenNext ==
    \/ promise(TRUE)
    \/ CompleterNext
    \/ DrivenDriver
    \/ Driven_drop
    \/ SpuriousWake

\* Both threads keep running: a call in progress returns, the driver polls
\* when woken and schedules after a None, and a callback the completer's
\* try_produce took is run to its end.
DrivenSpec ==
    /\ Init /\ [][DrivenNext]_vars
    /\ WF_vars(DrivenDriver)
    /\ WF_vars(Complete_callback)


\* =================================================== futures driven serially
\* The futures below are owned by one driver that calls poll, schedule and
\* tailcall one after the other.

\* The token sets a driver passes to poll.
PollTokens == {TokensAll, TokensFromUsize(0), TokensFromUsize(1)}

\* Some(e) of an Option<E>.
SomeE(e) == [kind |-> "Some", val |-> e]

\* util::opt2poll: Some(t) is Ok(t), None is Err(Panicked(Reused)).
Opt2Poll(o) == IF o.kind = "None" THEN [ok |-> FALSE, t |-> o]
               ELSE [ok |-> TRUE, t |-> o]

\* util::done(wake): invokes the waker at once with Tokens::all() and
\* returns Tokens::all().
util_done(w) == [tokens |-> TokensAll, wakes |-> <<[w |-> w, tokens |-> TokensAll]>>]

PollCall(tk, ret, nth) ==
    [NoCall EXCEPT !.op = "poll", !.arg = tk, !.ret = ret, !.nth = nth]
ScheduleCall(w, r) ==
    [NoCall EXCEPT !.op = "schedule", !.w = w, !.tokens = r.tokens, !.wakes = r.wakes]
TailcallCall(t) == [NoCall EXCEPT !.op = "tailcall", !.tail = t]

\* ------------------------------------------------------------------- Done
\* self.inner.take(): what the field holds afterwards.
\* A poll that leaves the result in place.
Done_take_kept(inner) == inner

Done_take(inner) == ProdNone

\* Done::poll: opt2poll(self.inner.take()).and_then(|r| r.map_err(Other)).
Done_poll_ret(inner) ==
    LET o == Opt2Poll(inner)
    IN IF ~o.ok THEN RetReused
       ELSE IF o.t.kind = "SomeOk" THEN RetOk(o.t.val) ELSE RetOther(o.t.val)

\* Done::schedule
Done_schedule_ret(w) == util_done(w)

\* Done::tailcall
Done_tailcall_ret == "None"

done(r) ==
    /\ done_inner = Unmade /\ sel_inner = "Unmade"
    /\ done_inner' = r
    /\ done_r' = r
    /\ UNCHANGED <<failed_e, failed_arg, leaf_polls, leaf_n, done_last, failed_last>>
    /\ UNCHANGED <<promiseWorld, selVars, chainVars>>

Done_poll(tk) ==
    /\ done_inner' = Done_take(done_inner)
    /\ done_last' = PollCall(tk, Done_poll_ret(done_inner), leaf_polls + 1)

\* schedule and tailcall do not touch self.inner (self.e in Failed): what
\* the field holds afterwards.
\* A schedule and a tailcall that take the stored result.
Untouched_taken(field) == ProdNone

Untouched(field) == field

Done_schedule(w) ==
    /\ done_last' = ScheduleCall(w, Done_schedule_ret(w))
    /\ done_inner' = Untouched(done_inner)

Done_tailcall ==
    /\ done_last' = TailcallCall(Done_tailcall_ret)
    /\ done_inner' = Untouched(done_inner)

\* ----------------------------------------------------------------- Failed
\* self.e.take(): what the field holds afterwards.
\* A poll that leaves the error in place.
Failed_take_kept(e) == e

Failed_take(e) == ProdNone

\* Failed::poll: opt2poll(self.e.take()).and_then(|e| Err(Other(e))).
Failed_poll_ret(e) ==
    LET o == Opt2Poll(e)
    IN IF ~o.ok THEN RetReused ELSE RetOther(o.t.val)

\* Failed::schedule
Failed_schedule_ret(w) == util_done(w)

\* Failed::tailcall
Failed_tailcall_ret == "None"

failed(e) ==
    /\ failed_e = Unmade /\ sel_inner = "Unmade"
    /\ failed_e' = SomeE(e)
    /\ failed_arg' = SomeE(e)
    /\ UNCHANGED <<done_inner, done_r, leaf_polls, leaf_n, done_last, failed_last>>
    /\ UNCHANGED <<promiseWorld, selVars, chainVars>>

Failed_poll(tk) ==
    /\ failed_e' = Failed_take(failed_e)
    /\ failed_last' = PollCall(tk, Failed_poll_ret(failed_e), leaf_polls + 1)

Failed_schedule(w) ==
    /\ failed_last' = ScheduleCall(w, Failed_schedule_ret(w))
    /\ failed_e' = Untouched(failed_e)

Failed_tailcall ==
    /\ failed_last' = TailcallCall(Failed_tailcall_ret)
    /\ failed_e' = Untouched(failed_e)

\* The driver makes the same call of the Done and of the Failed.
LeafReady == done_inner # Unmade /\ failed_e # Unmade /\ leaf_n < MaxLeafCalls

Leaf_poll ==
    /\ LeafReady
    /\ \E tk \in PollTokens : Done_poll(tk) /\ Failed_poll(tk)
    /\ leaf_polls' = leaf_polls + 1
    /\ leaf_n' = leaf_n + 1
    /\ UNCHANGED <<done_r, failed_arg, promiseWorld, selVars, chainVars>>

Leaf_schedule ==
    /\ LeafReady
    /\ \E w \in Wakers : Done_schedule(w) /\ Failed_schedule(w)
    /\ leaf_n' = leaf_n + 1
    /\ UNCHANGED <<done_r, failed_arg, leaf_polls, promiseWorld, selVars, chainVars>>

Leaf_tailcall ==
    /\ LeafReady
    /\ Done_tailcall /\ Failed_tailcall
    /\ leaf_n' = leaf_n + 1
    /\ UNCHANGED <<done_r, failed_arg, leaf_polls, promiseWorld, selVars, chainVars>>

\* ----------------------------------------------------------- Tokens (sets)
\* a | b, a & b and a.may_contain(b): when either operand is all() the
\* result is all() and may_contain answers true.
TokensOr(a, b) ==
    IF a.all \/ b.all THEN TokensAll ELSE [all |-> FALSE, ids |-> a.ids \cup b.ids]
TokensAnd(a, b) ==
    IF a.all \/ b.all THEN TokensAll ELSE [all |-> FALSE, ids |-> a.ids \cap b.ids]
TokensMayContain(a, b) == a.all \/ b.all \/ a.ids \cap b.ids # {}

\* ------------------------------------------------- the children of a Select
\* Child A carries the value 1 and draws token id 0, child B carries 2 and
\* draws 1 (its promise() call comes second).
ValOf(side) == IF side = "A" THEN 1 ELSE 2
TokOf(side) == IF side = "A" THEN ATOMIC_USIZE_INIT ELSE ATOMIC_USIZE_INIT + 1
OtherSide(side) == IF side = "A" THEN "B" ELSE "A"

MakeDone(r) == [NoFuture EXCEPT !.kind = "Done", !.opt = r]
MakeFailed(e) == [NoFuture EXCEPT !.kind = "Failed", !.opt = SomeE(e)]
MakeEmpty == [NoFuture EXCEPT !.kind = "Empty"]
MakePromise(tok) == [NoFuture EXCEPT !.kind = "Promise", !.tok = tok]
\* x.then(f) after x has resolved: it forwards to the future f returned.
MakeSecond(g) == [g EXCEPT !.wrap = TRUE]

ChildFutures(side) ==
    LET v == ValOf(side)
    IN {MakeDone(ProdOk(v)), MakeDone(ProdErr(v)), MakeFailed(v), MakeEmpty,
        MakePromise(TokOf(side)), MakeSecond(MakeEmpty),
        MakeSecond(MakeDone(ProdOk(v)))}

\* Promise::poll with no completer running at the same time.
Promise_poll_seq(f) ==
    IF f.pw THEN [f |-> f, ret |-> RetNone]
    ELSE LET ret == PollMatch(f.opt, f.used)
         IN [f |-> [f EXCEPT !.opt = SlotEmpty, !.used = UsedAfter(f.used, ret)],
             ret |-> ret]

\* Promise::schedule with no completer running at the same time: a full
\* slot runs the new callback inside on_full.
\* A schedule without the test of self.used.
Promise_schedule_seq_unchecked(f, w) ==
    IF f.opt # SlotEmpty
    THEN [f |-> [f EXCEPT !.pw = FALSE, !.cb = "none"],
          tokens |-> TokensFromUsize(f.tok),
          wakes |-> <<[w |-> w, tokens |-> TokensFromUsize(f.tok)]>>]
    ELSE [f |-> [f EXCEPT !.pw = TRUE, !.cb = w],
          tokens |-> TokensFromUsize(f.tok), wakes |-> <<>>]

Promise_schedule_seq(f, w) ==
    IF f.used THEN [f |-> f] @@ util_done(w)
    ELSE IF f.opt # SlotEmpty
    THEN [f |-> [f EXCEPT !.pw = FALSE, !.cb = "none"],
          tokens |-> TokensFromUsize(f.tok),
          wakes |-> <<[w |-> w, tokens |-> TokensFromUsize(f.tok)]>>]
    ELSE [f |-> [f EXCEPT !.pw = TRUE, !.cb = w],
          tokens |-> TokensFromUsize(f.tok), wakes |-> <<>>]

\* Complete::complete(t) between two calls of the driver: try_produce and the
\* armed callback.
Promise_complete_seq(f, t) ==
    [f |-> [f EXCEPT !.opt = t, !.fin = TRUE, !.cb = "none",
                     !.pw = IF f.cb # "none" THEN FALSE ELSE f.pw],
     wakes |-> IF f.cb # "none"
               THEN <<[w |-> f.cb, tokens |-> TokensFromUsize(f.tok)]>> ELSE <<>>]

\* Drop of a future: Drop for Promise cancels the armed callback.
Fut_drop(f) == [f EXCEPT !.cb = "none"]

\* poll, schedule and tailcall of a child by its type.  empty() never
\* resolves, answers Tokens::all() to schedule and drops the waker; a
\* combinator in its second stage forwards poll and schedule and answers
\* tailcall with the future it forwards to.
Fut_poll(f, tk) ==
    CASE f.kind = "Done" ->
            [f |-> [f EXCEPT !.opt = Done_take(f.opt)], ret |-> Done_poll_ret(f.opt)]
      [] f.kind = "Failed" ->
            [f |-> [f EXCEPT !.opt = Failed_take(f.opt)], ret |-> Failed_poll_ret(f.opt)]
      [] f.kind = "Promise" -> Promise_poll_seq(f)
      [] OTHER -> [f |-> f, ret |-> RetNone]

Fut_schedule(f, w) ==
    CASE f.kind = "Done" -> [f |-> f] @@ Done_schedule_ret(w)
      [] f.kind = "Failed" -> [f |-> f] @@ Failed_schedule_ret(w)
      [] f.kind = "Promise" -> Promise_schedule_seq(f, w)
      [] OTHER -> [f |-> f, tokens |-> TokensAll, wakes |-> <<>>]

Promise_tailcall_ret == "None"

Fut_tailcall(f) ==
    CASE f.wrap -> "Some"
      [] f.kind = "Done" -> Done_tailcall_ret
      [] f.kind = "Failed" -> Failed_tailcall_ret
      [] f.kind = "Promise" -> Promise_tailcall_ret
      [] OTHER -> "None"

\* Collapsed: poll and schedule call through to the variant at hand;
\* collapse turns Start(f) into Tail(g) when f.tailcall() returns Some(g).
Collapsed_poll(c, tk) == Fut_poll(c, tk)
Collapsed_schedule(c, w) == Fut_schedule(c, w)
Collapsed_collapse(c) ==
    IF c.form = "Start" /\ Fut_tailcall(c) = "Some"
    THEN [c EXCEPT !.form = "Tail", !.wrap = FALSE]
    ELSE c

\* ----------------------------------------------------------------- Select
\* select::new: the cached token sets start as Tokens::all().
\* A Select whose cached sets start empty.
Select_new_tokens_empty == NoTokens

Select_new_tokens == TokensAll

select_new(a, b) ==
    /\ sel_inner = "Unmade" /\ done_inner = Unmade /\ failed_e = Unmade
    /\ sel_inner' = "Some"
    /\ kids' = [s \in Sides |-> IF s = "A" THEN a ELSE b]
    /\ a_tokens' = Select_new_tokens
    /\ b_tokens' = Select_new_tokens
    /\ UNCHANGED <<holder, sel_sched, sel_n, sel_last, sel_wakes>>
    /\ UNCHANGED <<promiseWorld, leafVars, chainVars>>

ChildPolled(side, tk, r) == [side |-> side, arg |-> tk, ret |-> r.ret]

\* A match that polls B after A returned None whatever b_tokens holds.
Select_poll_match_unfiltered(tk) ==
    LET pa == Collapsed_poll(kids["A"], TokensAnd(tk, a_tokens))
        pb == Collapsed_poll(kids["B"], TokensAnd(tk, b_tokens))
        polledA == <<ChildPolled("A", TokensAnd(tk, a_tokens), pa)>>
        polledB == <<ChildPolled("B", TokensAnd(tk, b_tokens), pb)>>
    IN IF ~TokensMayContain(a_tokens, tk)
       THEN [polled |-> polledB, kids |-> [kids EXCEPT !["B"] = pb.f],
             win |-> IF IsSome(pb.ret) THEN "B" ELSE "none", ret |-> pb.ret]
       ELSE IF IsSome(pa.ret)
       THEN [polled |-> polledA, kids |-> [kids EXCEPT !["A"] = pa.f],
             win |-> "A", ret |-> pa.ret]
       ELSE [polled |-> polledA \o polledB,
             kids |-> [kids EXCEPT !["A"] = pa.f, !["B"] = pb.f],
             win |-> IF IsSome(pb.ret) THEN "B" ELSE "none", ret |-> pb.ret]

\* The match of Select::poll on self.inner = Some((a, b)): the children it
\* polls, in order, what becomes of them, and the winner with its result.
Select_poll_match(tk) ==
    LET pa == Collapsed_poll(kids["A"], TokensAnd(tk, a_tokens))
        pb == Collapsed_poll(kids["B"], TokensAnd(tk, b_tokens))
        onlyB == [polled |-> <<ChildPolled("B", TokensAnd(tk, b_tokens), pb)>>,
                  kids |-> [kids EXCEPT !["B"] = pb.f],
                  win |-> IF IsSome(pb.ret) THEN "B" ELSE "none", ret |-> pb.ret]
        onlyA == [polled |-> <<ChildPolled("A", TokensAnd(tk, a_tokens), pa)>>,
                  kids |-> [kids EXCEPT !["A"] = pa.f],
                  win |-> IF IsSome(pa.ret) THEN "A" ELSE "none", ret |-> pa.ret]
        both == [polled |-> onlyA.polled \o onlyB.polled,
                 kids |-> [kids EXCEPT !["A"] = pa.f, !["B"] = pb.f],
                 win |-> onlyB.win, ret |-> pb.ret]
    IN IF ~TokensMayContain(a_tokens, tk) THEN onlyB
       ELSE IF IsSome(pa.ret) THEN onlyA
       ELSE IF ~TokensMayContain(b_tokens, tk) THEN onlyA
       ELSE both

\* self.inner.take(): what the field holds afterwards.
\* A poll that leaves the children in place.
Select_take_kept == "Some"

Select_take == "None"

\* let next = if is_a {OneOf::B(b)} else {OneOf::A(a)}
\* A SelectNext made of the winner.
SelectLoser_winner(win) == win

SelectLoser(win) == OtherSide(win)

\* PollError::map(f): f is applied to the e of Other(e); a Panicked is kept
\* as it is and f is dropped with what it captured.
PollErrorMapsOther(kind) == kind = "Other"

\* Ok(a) => Ok((a, next)), Err(e) => Err(e.map(move |e| (e, next))).
\* A result whose errors all carry the SelectNext.
Select_result_keepsNext(ret, next) == SelRet(ret.kind, ret.val, next)

\* A result whose errors carry no SelectNext.
Select_result_bareErr(ret, next) ==
    IF ret.kind = "Ok" THEN SelRet(ret.kind, ret.val, next)
    ELSE SelRet(ret.kind, ret.val, "none")

Select_result(ret, next) ==
    IF ret.kind = "Ok" \/ PollErrorMapsOther(ret.kind)
    THEN SelRet(ret.kind, ret.val, next)
    ELSE SelRet(ret.kind, ret.val, "none")

SelCall(on, op) ==
    [NoSelCall EXCEPT !.on = on, !.op = op, !.before = sel_inner,
                      !.schedBefore = sel_sched, !.kidsBefore = kids,
                      !.resolvedBefore = (holder["A"] # "select"),
                      !.holdAfter = holder,
                      !.prev = [on |-> sel_last.on, op |-> sel_last.op,
                                tail |-> sel_last.tail,
                                handed |-> sel_last.handed]]

Select_poll(tk) ==
    /\ sel_inner # "Unmade" /\ sel_n < MaxSelCalls
    /\ sel_n' = sel_n + 1
    /\ IF sel_inner = "None"
       THEN /\ sel_last' = [SelCall("select", "poll") EXCEPT
                               !.arg = tk, !.ret = SelRet("Reused", 0, "none"),
                               !.kidsAfter = kids]
            /\ UNCHANGED <<sel_inner, kids, holder>>
       ELSE LET m == Select_poll_match(tk)
                next == SelectLoser(m.win)
                out == Select_result(m.ret, next)
                own == IF out.next = "none"
                       THEN [s \in Sides |-> "dropped"]
                       ELSE [s \in Sides |-> IF s = next THEN "next" ELSE "dropped"]
                left == [s \in Sides |-> IF own[s] = "dropped"
                                         THEN Fut_drop(m.kids[s]) ELSE m.kids[s]]
            IN IF m.win = "none"
               THEN /\ kids' = m.kids
                    /\ sel_last' = [SelCall("select", "poll") EXCEPT
                                       !.arg = tk, !.polled = m.polled,
                                       !.kidsAfter = m.kids]
                    /\ UNCHANGED <<sel_inner, holder>>
               ELSE /\ sel_inner' = Select_take
                    /\ kids' = left
                    /\ holder' = own
                    /\ sel_last' = [SelCall("select", "poll") EXCEPT
                                       !.arg = tk, !.polled = m.polled,
                                       !.ret = out, !.kidsAfter = left,
                                       !.holdAfter = own]
    /\ UNCHANGED <<a_tokens, b_tokens, sel_sched, sel_wakes>>
    /\ UNCHANGED <<promiseWorld, leafVars, chainVars>>

ChildScheduled(side, w, r) == [side |-> side, w |-> w, tokens |-> r.tokens]

\* &self.a_tokens | &self.b_tokens
\* A schedule that answers with the set of the first child.
Select_schedule_tokens_first(at, bt) == at

Select_schedule_tokens(at, bt) == TokensOr(at, bt)

\* Select::schedule on a resolved Select.
Select_schedule_none(w) == util_done(w)

Select_schedule(w) ==
    /\ sel_inner # "Unmade" /\ sel_n < MaxSelCalls
    /\ sel_n' = sel_n + 1
    /\ sel_sched' = TRUE
    /\ IF sel_inner = "Some"
       THEN LET sa == Collapsed_schedule(kids["A"], w)
                sb == Collapsed_schedule(kids["B"], w)
                after == [kids EXCEPT !["A"] = sa.f, !["B"] = sb.f]
            IN /\ a_tokens' = sa.tokens
               /\ b_tokens' = sb.tokens
               /\ kids' = after
               /\ sel_last' = [SelCall("select", "schedule") EXCEPT
                     !.w = w,
                     !.tokens = Select_schedule_tokens(sa.tokens, sb.tokens),
                     !.wakes = sa.wakes \o sb.wakes,
                     !.scheduled = <<ChildScheduled("A", w, sa),
                                     ChildScheduled("B", w, sb)>>,
                     !.kidsAfter = after]
       ELSE LET r == Select_schedule_none(w)
            IN /\ sel_last' = [SelCall("select", "schedule") EXCEPT
                     !.w = w, !.tokens = r.tokens, !.wakes = r.wakes,
                     !.kidsAfter = kids]
               /\ UNCHANGED <<a_tokens, b_tokens, kids>>
    /\ UNCHANGED <<sel_inner, holder, sel_wakes>>
    /\ UNCHANGED <<promiseWorld, leafVars, chainVars>>

\* Select::tailcall: collapse both children, answer None.
\* A tailcall that takes the future out of a Tail child and leaves empty().
Select_tailcall_kids_taken(ks) ==
    IF sel_inner = "Some"
    THEN [s \in Sides |->
            LET d == Collapsed_collapse(ks[s])
            IN IF d.form = "Tail" THEN [MakeEmpty EXCEPT !.form = "Tail"] ELSE d]
    ELSE ks

Select_tailcall_kids(ks) ==
    IF sel_inner = "Some" THEN [s \in Sides |-> Collapsed_collapse(ks[s])] ELSE ks

Select_tailcall ==
    /\ sel_inner # "Unmade" /\ sel_n < MaxSelCalls
    /\ sel_n' = sel_n + 1
    /\ kids' = Select_tailcall_kids(kids)
    /\ sel_last' = [SelCall("select", "tailcall") EXCEPT
                       !.tail = "None", !.kidsAfter = Select_tailcall_kids(kids)]
    /\ UNCHANGED <<sel_inner, a_tokens, b_tokens, holder, sel_sched, sel_wakes>>
    /\ UNCHANGED <<promiseWorld, leafVars, chainVars>>

\* ------------------------------------------------------------- SelectNext
\* The child a SelectNext wraps.
NextSides == {s \in Sides : holder[s] = "next"}

SelectNext_poll(tk) ==
    /\ sel_n < MaxSelCalls
    /\ \E s \in NextSides :
          LET r == Collapsed_poll(kids[s], tk)
              after == [kids EXCEPT ![s] = r.f]
          IN /\ kids' = after
             /\ sel_last' = [SelCall("next", "poll") EXCEPT
                   !.arg = tk, !.ret = SelRet(r.ret.kind, r.ret.val, "none"),
                   !.polled = <<ChildPolled(s, tk, r)>>, !.kidsAfter = after]
    /\ sel_n' = sel_n + 1
    /\ UNCHANGED <<sel_inner, a_tokens, b_tokens, holder, sel_sched, sel_wakes>>
    /\ UNCHANGED <<promiseWorld, leafVars, chainVars>>

SelectNext_schedule(w) ==
    /\ sel_n < MaxSelCalls
    /\ \E s \in NextSides :
          LET r == Collapsed_schedule(kids[s], w)
              after == [kids EXCEPT ![s] = r.f]
          IN /\ kids' = after
             /\ sel_last' = [SelCall("next", "schedule") EXCEPT
                   !.w = w, !.tokens = r.tokens, !.wakes = r.wakes,
                   !.scheduled = <<ChildScheduled(s, w, r)>>, !.kidsAfter = after]
    /\ sel_n' = sel_n + 1
    /\ UNCHANGED <<sel_inner, a_tokens, b_tokens, holder, sel_sched, sel_wakes>>
    /\ UNCHANGED <<promiseWorld, leafVars, chainVars>>

\* SelectNext::tailcall on the child c: collapse it; a Tail(a) is answered
\* with Some(mem::replace(a, Box::new(empty()))).
\* A tailcall that answers with the fresh empty() and keeps the future.
SelectNext_tailcall_of_swapped(c) ==
    LET d == Collapsed_collapse(c)
    IN IF d.form = "Tail"
       THEN [c |-> d, tail |-> "Some", handed |-> [MakeEmpty EXCEPT !.form = "Tail"]]
       ELSE [c |-> d, tail |-> "None", handed |-> NoFuture]

SelectNext_tailcall_of(c) ==
    LET d == Collapsed_collapse(c)
    IN IF d.form = "Tail"
       THEN [c |-> [MakeEmpty EXCEPT !.form = "Tail"], tail |-> "Some", handed |-> d]
       ELSE [c |-> d, tail |-> "None", handed |-> NoFuture]

SelectNext_tailcall ==
    /\ sel_n < MaxSelCalls
    /\ \E s \in NextSides :
          LET r == SelectNext_tailcall_of(kids[s])
              after == [kids EXCEPT ![s] = r.c]
          IN /\ kids' = after
             /\ sel_last' = [SelCall("next", "tailcall") EXCEPT
                   !.tail = r.tail, !.handed = r.handed, !.kidsAfter = after]
    /\ sel_n' = sel_n + 1
    /\ UNCHANGED <<sel_inner, a_tokens, b_tokens, holder, sel_sched, sel_wakes>>
    /\ UNCHANGED <<promiseWorld, leafVars, chainVars>>

\* The caller drops the SelectNext and with it the child it wraps.
SelectNext_drop ==
    /\ \E s \in NextSides :
          /\ holder' = [holder EXCEPT ![s] = "dropped"]
          /\ kids' = [kids EXCEPT ![s] = Fut_drop(kids[s])]
    /\ UNCHANGED <<sel_inner, a_tokens, b_tokens, sel_sched, sel_n, sel_last,
                   sel_wakes>>
    /\ UNCHANGED <<promiseWorld, leafVars, chainVars>>

\* The Complete of a child promise finishes, fails or is dropped between two
\* calls of the driver.
Child_complete(s, t) ==
    /\ sel_inner # "Unmade"
    /\ kids[s].kind = "Promise" /\ ~kids[s].fin
    /\ LET r == Promise_complete_seq(kids[s], t)
       IN /\ kids' = [kids EXCEPT ![s] = r.f]
          /\ sel_wakes' = sel_wakes \o r.wakes
    /\ UNCHANGED <<sel_inner, a_tokens, b_tokens, holder, sel_sched, sel_n,
                   sel_last>>
    /\ UNCHANGED <<promiseWorld, leafVars, chainVars>>

Productions(s) == {ProdOk(ValOf(s)), ProdErr(ValOf(s)), ProdNone}

FutNext ==
    \/ \E r \in {ProdOk(v) : v \in Vals} \cup {ProdErr(e) : e \in Vals} : done(r)
    \/ \E e \in Vals : failed(e)
    \/ Leaf_poll
    \/ Leaf_schedule
    \/ Leaf_tailcall
    \/ \E a \in ChildFutures("A") : \E b \in ChildFutures("B") : select_new(a, b)
    \/ \E tk \in PollTokens : Select_poll(tk)
    \/ \E w \in Wakers : Select_schedule(w)
    \/ Select_tailcall
    \/ \E tk \in PollTokens : SelectNext_poll(tk)
    \/ \E w \in Wakers : SelectNext_schedule(w)
    \/ SelectNext_tailcall
    \/ SelectNext_drop
    \/ \E s \in Sides : \E t \in Productions(s) : Child_complete(s, t)

FutSpec == Init /\ [][FutNext]_vars


\* ------------------------------------------------- chains of combinators
\* tests/eager_drop.rs: a source future that owns some data, two
\* combinators with a closure each, and forget(), which polls the chain
\* until it has resolved and drops it then.  The source is finished(v),
\* failed(e), or a promise inside a FutureData whose Complete finishes,
\* fails or is dropped at any time.
ChainSources ==
    {[kind |-> "Finished", opt |-> ProdOk(v)] : v \in Vals}
    \cup {[kind |-> "Failed", opt |-> ProdErr(e)] : e \in Vals}
    \cup {[kind |-> "Promise", opt |-> SlotEmpty]}
Stages == {"map", "map_err", "and_then"}

\* What a combinator does once the future below it has resolved with res:
\* "call" takes the closure and invokes it, "drop_f" drops the closure
\* uninvoked, "drop_first" drops the future below with all it owns.
\* A Map that keeps an unused closure until the Map itself is dropped.
Map_ops_lazy(res) == IF res.kind = "Ok" THEN <<"call">> ELSE <<>>

Map_ops(res) == IF res.kind = "Ok" THEN <<"call">> ELSE <<"drop_f">>

MapErr_ops(res) == IF res.kind = "Other" THEN <<"call">> ELSE <<"drop_f">>

\* An AndThen that invokes its closure while it still holds the first future.
AndThen_ops_late(res) ==
    IF res.kind = "Ok" THEN <<"call", "drop_first">> ELSE <<"drop_f", "drop_first">>

AndThen_ops(res) ==
    IF res.kind = "Ok" THEN <<"drop_first", "call">> ELSE <<"drop_first", "drop_f">>

StageOps(k, res) ==
    CASE k = "map" -> Map_ops(res)
      [] k = "map_err" -> MapErr_ops(res)
      [] OTHER -> AndThen_ops(res)

\* What the closures of the tests answer: |a| a for map, a unit for map_err,
\* finished(1) for and_then, which the AndThen polls at once.
Closure_result(k, res) ==
    CASE k = "map" -> res
      [] k = "map_err" -> RetOther(0)
      [] OTHER -> RetOk(1)

StageKind(i) == IF i = 1 THEN ch_kinds.k1 ELSE ch_kinds.k2

\* source.k1(f1).k2(f2)
chain_new(src, k1, k2) ==
    /\ ch_pc = "unmade"
    /\ ch_kinds' = [src |-> src.kind, k1 |-> k1, k2 |-> k2]
    /\ ch_src' = [alive |-> TRUE, opt |-> src.opt, fin |-> src.opt # SlotEmpty]
    /\ ch_f' = <<"held", "held">>
    /\ ch_pc' = "idle"
    /\ UNCHANGED <<ch_at, ch_ops, ch_res, ch_seen>>
    /\ UNCHANGED <<promiseWorld, leafVars, selVars>>

\* forget(): the spawner polls the chain; the outermost combinator polls the
\* one below it, and that one the source.
Forget_poll ==
    /\ ch_pc = "idle"
    /\ ch_pc' = "src"
    /\ UNCHANGED <<ch_kinds, ch_src, ch_f, ch_at, ch_ops, ch_res, ch_seen>>
    /\ UNCHANGED <<promiseWorld, leafVars, selVars>>

\* The poll of the source: None while the promise is pending (the chain
\* waits for its wake), otherwise the result, which the first combinator
\* takes up.
Source_poll ==
    /\ ch_pc = "src"
    /\ IF ch_src.opt = SlotEmpty
       THEN /\ ch_pc' = "parked"
            /\ UNCHANGED <<ch_src, ch_at, ch_ops, ch_res>>
       ELSE LET r == PollMatch(ch_src.opt, FALSE)
            IN /\ ch_res' = r
               /\ ch_src' = [ch_src EXCEPT !.opt = SlotEmpty]
               /\ ch_at' = 1
               /\ ch_ops' = StageOps(ch_kinds.k1, r)
               /\ ch_pc' = "stage"
    /\ UNCHANGED <<ch_kinds, ch_f, ch_seen>>
    /\ UNCHANGED <<promiseWorld, leafVars, selVars>>

\* c.finish(v), c.fail(e) or the drop of c; a parked chain is woken.
Chain_complete(t) ==
    /\ ch_kinds.src = "Promise" /\ ch_src.alive /\ ~ch_src.fin
    /\ ch_pc \in {"idle", "src", "parked"}
    /\ ch_src' = [ch_src EXCEPT !.opt = t, !.fin = TRUE]
    /\ ch_pc' = IF ch_pc = "parked" THEN "idle" ELSE ch_pc
    /\ UNCHANGED <<ch_kinds, ch_f, ch_at, ch_ops, ch_res, ch_seen>>
    /\ UNCHANGED <<promiseWorld, leafVars, selVars>>

\* The combinator at hand invokes its closure, which is consumed by the call.
Stage_call ==
    /\ ch_pc = "stage" /\ ch_ops # <<>> /\ Head(ch_ops) = "call"
    /\ ch_f' = [ch_f EXCEPT ![ch_at] = "called"]
    /\ ch_seen' = [ch_seen EXCEPT ![ch_at] =
                      [called |-> TRUE, srcAlive |-> ch_src.alive,
                       srcFin |-> ch_src.fin,
                       upHeld |-> \E j \in 1..(ch_at - 1) : ch_f[j] = "held",
                       arg |-> ch_res]]
    /\ ch_res' = Closure_result(StageKind(ch_at), ch_res)
    /\ ch_ops' = Tail(ch_ops)
    /\ UNCHANGED <<ch_kinds, ch_src, ch_pc, ch_at>>
    /\ UNCHANGED <<promiseWorld, leafVars, selVars>>

\* The combinator at hand drops its closure without invoking it.
Stage_drop_closure ==
    /\ ch_pc = "stage" /\ ch_ops # <<>> /\ Head(ch_ops) = "drop_f"
    /\ ch_f' = [ch_f EXCEPT ![ch_at] = "dropped"]
    /\ ch_ops' = Tail(ch_ops)
    /\ UNCHANGED <<ch_kinds, ch_src, ch_pc, ch_at, ch_res, ch_seen>>
    /\ UNCHANGED <<promiseWorld, leafVars, selVars>>

\* The combinator at hand drops the future below it: the source with its
\* data and every closure still held below.
Stage_drop_first ==
    /\ ch_pc = "stage" /\ ch_ops # <<>> /\ Head(ch_ops) = "drop_first"
    /\ ch_src' = [ch_src EXCEPT !.alive = FALSE]
    /\ ch_f' = [j \in 1..2 |-> IF j < ch_at /\ ch_f[j] = "held"
                               THEN "dropped" ELSE ch_f[j]]
    /\ ch_ops' = Tail(ch_ops)
    /\ UNCHANGED <<ch_kinds, ch_pc, ch_at, ch_res, ch_seen>>
    /\ UNCHANGED <<promiseWorld, leafVars, selVars>>

\* The poll of the combinator at hand returns: to the combinator above it,
\* or from the outermost one to forget().
Stage_return ==
    /\ ch_pc = "stage" /\ ch_ops = <<>>
    /\ IF ch_at = 1
       THEN /\ ch_at' = 2
            /\ ch_ops' = StageOps(ch_kinds.k2, ch_res)
            /\ UNCHANGED ch_pc
       ELSE /\ ch_pc' = "done"
            /\ UNCHANGED <<ch_at, ch_ops>>
    /\ UNCHANGED <<ch_kinds, ch_src, ch_f, ch_res, ch_seen>>
    /\ UNCHANGED <<promiseWorld, leafVars, selVars>>

\* forget() drops the chain once it has resolved.
Forget_drop ==
    /\ ch_pc = "done"
    /\ ch_pc' = "dropped"
    /\ ch_src' = [ch_src EXCEPT !.alive = FALSE]
    /\ ch_f' = [j \in 1..2 |-> IF ch_f[j] = "held" THEN "dropped" ELSE ch_f[j]]
    /\ UNCHANGED <<ch_kinds, ch_at, ch_ops, ch_res, ch_seen>>
    /\ UNCHANGED <<promiseWorld, leafVars, selVars>>

ChainNext ==
    \/ \E src \in ChainSources : \E k1 \in Stages : \E k2 \in Stages :
          chain_new(src, k1, k2)
    \/ Forget_poll
    \/ Source_poll
    \/ \E t \in {ProdOk(1), ProdErr(1), ProdNone} : Chain_complete(t)
    \/ Stage_call
    \/ Stage_drop_closure
    \/ Stage_drop_first
    \/ Stage_return
    \/ Forget_drop

ChainSpec == Init /\ [][ChainNext]_vars

\* ------------------------------------------------------------- properties
Polled == 1..Len(polls)
Called == 1..Len(calls)

\* The terminal result the completer's action stands for.
Expected ==
    CASE outcome.kind = "finish" -> RetOk(outcome.val)
      [] outcome.kind = "fail" -> RetOther(outcome.val)
      [] outcome.kind = "drop" -> RetCanceled
      [] OTHER -> RetNone

\* Poll i is the first one that returned Some.
FirstSome(i) == IsSome(polls[i].ret) /\ \A j \in 1..(i - 1) : ~IsSome(polls[j].ret)

\* A poll has returned the terminal result.
Delivered == \E i \in Polled : polls[i].ret = Expected

\* Schedule call i returned before the completer produced.
BeforeProd(i) == calls[i].returned /\ ~calls[i].prodAtReturn

\* C1: when the Complete is dropped without finish or fail, the promise
\* resolves as Panicked(Canceled): no poll returns Ok or Other, the first poll
\* that returns Some returns Canceled, a poll begun after the drop that
\* pending_wake does not gate returns Some, and once both threads are at rest
\* the flag is clear and the slot holds the cancellation, so the promise does
\* not stay pending.
C1_CancelOnDrop ==
    outcome.kind = "drop" =>
        /\ \A i \in Polled : polls[i].ret.kind \notin {"Ok", "Other"}
        /\ \A i \in Polled : FirstSome(i) => polls[i].ret = RetCanceled
        /\ \A i \in Polled :
              (polls[i].prodAtStart /\ ~polls[i].gated) => IsSome(polls[i].ret)
        /\ (cpc = "done" /\ dpc = "idle" /\ p_alive /\ ~used)
              => (~pending_wake /\ slot = ProdNone)

\* C1 witness: after the drop a poll was gated and the next one returned
\* Canceled.
C1_Witness ==
    /\ outcome.kind = "drop"
    /\ \E i \in Polled : \E j \in Polled :
          /\ i < j
          /\ polls[i].prodAtStart /\ polls[i].gated
          /\ polls[j].ret = RetCanceled

\* C2: after finish(v) the first Some a poll returns is Ok(v), after fail(e)
\* it is Err(Other(e)); no poll returns a cancellation and the drop of the
\* consumed handle leaves no cancellation in the slot.
C2_ProducedValue ==
    outcome.kind \in {"finish", "fail"} =>
        /\ \A i \in Polled : FirstSome(i) => polls[i].ret = Expected
        /\ \A i \in Polled : polls[i].ret # RetCanceled
        /\ slot # ProdNone /\ on_empty = SlotEmpty

\* C2 witness: finish(2) was polled as Ok(2), or fail(2) as Err(Other(2)),
\* the drop of the consumed handle has run and two polls were made.
C2_Witness ==
    /\ dropRan
    /\ \/ outcome = [kind |-> "finish", val |-> 2] /\ \E i \in Polled : polls[i].ret = RetOk(2)
       \/ outcome = [kind |-> "fail", val |-> 2] /\ \E i \in Polled : polls[i].ret = RetOther(2)
    /\ Len(polls) = 2

\* C3: a poll that returns before the completer has produced returns None.
C3_NoneBeforeProduction ==
    \A i \in Polled : ~polls[i].prodAtEnd => polls[i].ret = RetNone

\* C3 witness: two polls before production, a schedule call between them.
C3_Witness ==
    /\ Len(polls) = 2 /\ Len(calls) >= 1
    /\ ~polls[1].gated /\ polls[2].gated
    /\ ~polls[2].prodAtEnd

\* C4: after a poll has returned Some, every later poll returns
\* Some(Err(Panicked(Reused))).
C4_OneShot ==
    \A i \in Polled : \A j \in Polled :
        (i < j /\ IsSome(polls[i].ret)) => polls[j].ret = RetReused

\* C4 witness: a terminal result, then a poll that returned Reused.
C4_Witness ==
    \E i \in Polled : \E j \in Polled :
        /\ i < j
        /\ polls[i].ret.kind \in {"Ok", "Other", "Canceled"}
        /\ polls[j].ret = RetReused

\* C5: no lost wakeup.  A schedule call begun after production on an
\* unresolved promise has invoked its waker when it returns; under a driver
\* that polls when woken, production leads to a poll that returns the
\* terminal result, and a driver waiting after schedule has its latest waker
\* invoked.
C5_NoLostWakeup ==
    /\ [](\A i \in Called :
            (calls[i].returned /\ calls[i].prodAtStart /\ ~calls[i].resolved)
                => calls[i].wokenAtReturn >= 1)
    /\ (produced ~> Delivered)
    /\ ((produced /\ dpc = "idle" /\ driverLast = "schedule")
            ~> (Len(calls) > 0 /\ calls[Len(calls)].woken >= 1))

\* C5 witness: the driver scheduled after production, was woken inline and
\* its next poll returned the terminal result.
C5_Witness ==
    /\ Delivered
    /\ Len(calls) > 0
    /\ calls[Len(calls)].prodAtStart /\ calls[Len(calls)].wokenAtReturn = 1
    /\ polls[Len(polls)].afterWake /\ polls[Len(polls)].ret = Expected

\* C6: a waker is invoked only after the slot was filled, and a poll begun
\* after a wake finds neither pending_wake set nor the slot empty: it
\* returns Some.
C6_WakeAfterFill ==
    /\ \A i \in Called : calls[i].woken >= 1 => (produced \/ calls[i].resolved)
    /\ \A i \in Polled : polls[i].afterWake => IsSome(polls[i].ret)

\* C6 witness: a slot callback woke the driver and the poll that followed
\* returned the terminal result.
C6_Witness ==
    /\ \E i \in Called : ~calls[i].prodAtReturn /\ calls[i].returned /\ calls[i].woken = 1
    /\ \E i \in Polled : polls[i].afterWake /\ polls[i].ret = Expected

\* C7: of the schedule calls that returned before production only the last
\* one's waker is invoked: an earlier one's never, the last one's at most
\* once, and exactly once when the completer has produced (the promise not
\* dropped before) and run the callback.
C7_LastWakerOnly ==
    /\ \A i \in Called : \A j \in Called :
          (i < j /\ BeforeProd(i) /\ BeforeProd(j)) => calls[i].woken = 0
    /\ \A i \in Called : BeforeProd(i) => calls[i].woken <= 1
    /\ (/\ Len(calls) > 0 /\ BeforeProd(Len(calls))
        /\ produced /\ ~prodAfterDrop /\ cpc \in {"drop", "done"})
          => calls[Len(calls)].woken = 1

\* C7 witness: schedule(w1), schedule(w2), then completion: w2 was invoked
\* once, w1 not.
C7_Witness ==
    /\ Len(calls) = 2 /\ BeforeProd(1) /\ BeforeProd(2)
    /\ calls[1].w # calls[2].w
    /\ cpc = "done"
    /\ calls[1].woken = 0 /\ calls[2].woken = 1

\* C8: once a Promise with an armed slot callback is dropped, no waker
\* registered through it is invoked any more.
C8_DropCancels ==
    (~p_alive /\ armedAtDrop) => SumWoken(calls) = wakesAtDrop

\* C8 witness: the promise was dropped with a callback armed and the
\* completer has since produced and finished.
C8_Witness ==
    /\ ~p_alive /\ armedAtDrop
    /\ produced /\ cpc = "done"

\* C9: on an unresolved promise schedule returns the singleton set of the
\* promise's token id, and the waker of that call is invoked only with that
\* set.
C9_ScheduleTokens ==
    \A i \in Called :
        ~calls[i].resolved =>
            /\ calls[i].returned => calls[i].ret = [all |-> FALSE, ids |-> {token}]
            /\ calls[i].wtokens \subseteq {[all |-> FALSE, ids |-> {token}]}

\* C9 witness: two schedule calls on a promise with token id 1 returned, and
\* the second one's waker was invoked.
C9_Witness ==
    /\ token = 1
    /\ Len(calls) = 2
    /\ calls[1].returned /\ ~calls[1].resolved
    /\ calls[2].returned /\ ~calls[2].resolved
    /\ calls[1].ret = calls[2].ret
    /\ calls[2].woken = 1

\* C10: the token ids drawn before COUNT wrapped around are handed out in
\* increasing order, so any two of them differ, and the promise under
\* observation holds the id its own call drew.
C10_DistinctTokens ==
    /\ \A i \in 1..Len(issued) : \A j \in 1..Len(issued) :
          (i < j /\ ~issued[j].wrapped) => issued[i].id < issued[j].id
    /\ created => \E i \in 1..Len(issued) : issued[i].id = token

\* C10 witness: two promises with distinct ids, then a third call that drew
\* an id after the wrap.
C10_Witness ==
    /\ Len(issued) >= 3
    /\ ~issued[2].wrapped /\ issued[1].id # issued[2].id
    /\ issued[3].wrapped

\* The result Done::poll and Failed::poll owe for a given Result.
Mapped(r) == IF r.kind = "SomeOk" THEN RetOk(r.val) ELSE RetOther(r.val)

\* One synchronous invocation of w with Tokens::all().
WokenOnce(w) == <<[w |-> w, tokens |-> [all |-> TRUE, ids |-> {}]]>>

\* C11: the first poll of done(r) returns Some(r) with Err(e) as
\* Err(Other(e)), whatever tokens it is given and whatever schedule and
\* tailcall calls came before; every later poll returns
\* Some(Err(Panicked(Reused))); no poll returns None.
C11_DoneOnce ==
    done_last.op = "poll" =>
        /\ done_last.ret # RetNone
        /\ done_last.nth = 1 => done_last.ret = Mapped(done_r)
        /\ done_last.nth > 1 => done_last.ret = RetReused

\* C11 witness: done(Err(2)) was scheduled or tailcalled, polled, and polled
\* again with a singleton token set, which returned Reused.
C11_Witness ==
    /\ done_r = ProdErr(2)
    /\ leaf_n = 3
    /\ done_last.op = "poll" /\ done_last.nth = 2
    /\ ~done_last.arg.all
    /\ done_last.ret = RetReused

\* C12: failed(e) and done(Err(e)) given the same calls answer every call
\* alike: the same poll result (Err(Other(e)) at the first poll, Reused
\* later), the same tokens and waker invocations from schedule, None from
\* tailcall.
C12_FailedIsDoneErr ==
    (done_r.kind = "SomeErr" /\ failed_arg.kind = "Some"
        /\ done_r.val = failed_arg.val)
    => /\ done_last = failed_last
       /\ failed_last.op = "poll" =>
             failed_last.ret = IF failed_last.nth = 1
                               THEN RetOther(failed_arg.val) ELSE RetReused
       /\ failed_last.op = "tailcall" => failed_last.tail = "None"
       /\ failed_last.op = "schedule" => failed_last.wakes = WokenOnce(failed_last.w)

\* C12 witness: failed(2) and done(Err(2)) were polled twice, with another
\* call among the three.
C12_Witness ==
    /\ done_r = ProdErr(2) /\ failed_arg = SomeE(2)
    /\ leaf_n = 3
    /\ failed_last.op = "poll" /\ failed_last.nth = 2
    /\ done_last.ret = RetReused

\* The schedule call on record was made of a future that is ready at once:
\* a resolved Select, or through the SelectNext a Done, a Failed or a Promise
\* whose value was consumed.
ReadyChild(c) == c.kind \in {"Done", "Failed"} \/ (c.kind = "Promise" /\ c.used)
ScheduledReady ==
    /\ sel_last.op = "schedule"
    /\ \/ sel_last.on = "select" /\ sel_last.resolvedBefore
       \/ /\ sel_last.on = "next"
          /\ ReadyChild(sel_last.kidsBefore[sel_last.scheduled[1].side])

\* C13: schedule on a future that is ready at once (Done, Failed, a Promise
\* whose value was consumed, a resolved Select) invokes the waker exactly
\* once before it returns, with Tokens::all(), and arms no callback: the
\* futures are left as they were.
C13_ReadySchedule ==
    /\ done_last.op = "schedule" => done_last.wakes = WokenOnce(done_last.w)
    /\ failed_last.op = "schedule" => failed_last.wakes = WokenOnce(failed_last.w)
    /\ ScheduledReady =>
          /\ sel_last.wakes = WokenOnce(sel_last.w)
          /\ sel_last.kidsAfter = sel_last.kidsBefore
          /\ \A s \in Sides : sel_last.kidsAfter[s].cb # sel_last.w
                                 \/ sel_last.kidsBefore[s].cb = sel_last.w

\* C13 witness: the SelectNext was scheduled on a Promise whose value an
\* earlier poll had consumed.
C13_Witness ==
    /\ ScheduledReady /\ sel_last.on = "next"
    /\ \E s \in Sides : /\ sel_last.kidsBefore[s].kind = "Promise"
                        /\ sel_last.kidsBefore[s].used
                        /\ holder[s] = "next"
    /\ sel_last.wakes = WokenOnce(sel_last.w)

\* The call on record is a poll of the unresolved Select in which a child
\* resolved: the last child polled is the winner, the other one the loser.
SelectPolled == sel_last.on = "select" /\ sel_last.op = "poll" /\ ~sel_last.resolvedBefore
Won == sel_last.polled[Len(sel_last.polled)]
Lost == IF Won.side = "A" THEN "B" ELSE "A"
ChildWon(kinds) == SelectPolled /\ Len(sel_last.polled) > 0 /\ Won.ret.kind \in kinds
NextPolled == sel_last.on = "next" /\ sel_last.op = "poll"

\* C14: when a child resolves with Ok(v) at a poll of the Select, the poll
\* returns Some(Ok((v, next))) and next wraps the other child, left as it
\* was; a poll of the SelectNext polls that child with the tokens given and
\* returns what it returns: None for empty(), the result and then Reused for
\* a Done.
C14_WinnerOk ==
    /\ ChildWon({"Ok"}) =>
          /\ sel_last.ret = [kind |-> "Ok", val |-> Won.ret.val, next |-> Lost]
          /\ Won.ret.val = ValOf(Won.side)
          /\ sel_last.holdAfter[Lost] = "next"
          /\ sel_last.holdAfter[Won.side] = "dropped"
          /\ sel_last.kidsAfter[Lost] = sel_last.kidsBefore[Lost]
    /\ NextPolled =>
          LET p == sel_last.polled[1]
              c == sel_last.kidsBefore[p.side]
          IN /\ Len(sel_last.polled) = 1 /\ sel_last.holdAfter[p.side] = "next"
             /\ p.arg = sel_last.arg
             /\ sel_last.ret = [kind |-> p.ret.kind, val |-> p.ret.val, next |-> "none"]
             /\ c.kind = "Empty" =>
                   (p.ret = RetNone /\ sel_last.kidsAfter[p.side] = c)
             /\ c.kind = "Done" =>
                   p.ret = IF c.opt = ProdNone THEN RetReused ELSE Mapped(c.opt)

\* C14 witness: child B resolved with Ok(2) after child A, a pending
\* Promise, had returned None in the same poll; the SelectNext wraps A.
C14_Witness ==
    /\ ChildWon({"Ok"})
    /\ Len(sel_last.polled) = 2
    /\ sel_last.ret = [kind |-> "Ok", val |-> 2, next |-> "A"]
    /\ kids["A"].kind = "Promise" /\ holder["A"] = "next"

\* The statement C15 as given: a winner that fails with Other(e) or with
\* Panicked yields an error of the same variant that carries the loser as a
\* SelectNext.
C15_ErrorCarriesLoser ==
    ChildWon({"Other", "Canceled", "Reused"}) =>
        /\ sel_last.ret.kind = Won.ret.kind
        /\ sel_last.ret.next = Lost /\ sel_last.holdAfter[Lost] = "next"

\* C15: a winner that fails yields an error of the same variant; with
\* Other(e) the error is Other((e, next)) and next wraps the loser, which
\* the caller can poll or drop; with Panicked the error carries no
\* SelectNext.
C15_WinnerFails ==
    /\ ChildWon({"Other"}) =>
          /\ sel_last.ret = [kind |-> "Other", val |-> Won.ret.val, next |-> Lost]
          /\ sel_last.holdAfter[Lost] = "next"
          /\ sel_last.kidsAfter[Lost] = sel_last.kidsBefore[Lost]
    /\ ChildWon({"Canceled", "Reused"}) =>
          /\ sel_last.ret.kind = Won.ret.kind
          /\ sel_last.ret.next = "none"
          /\ \A s \in Sides : sel_last.holdAfter[s] = "dropped"

\* C15 witness: child B failed with Other(2) after child A had returned
\* None; the error carries the SelectNext of A.
C15_Witness ==
    /\ ChildWon({"Other"})
    /\ Len(sel_last.polled) = 2
    /\ sel_last.ret = [kind |-> "Other", val |-> 2, next |-> "A"]
    /\ holder["A"] = "next"

Covers(big, small) == big.all \/ (~small.all /\ small.ids \subseteq big.ids)

\* C17: schedule on an unresolved Select hands the waker to child A and to
\* child B, caches what each returned in a_tokens and b_tokens, and returns
\* their union: a set that covers both.
C17_ScheduleUnion ==
    (sel_last.on = "select" /\ sel_last.op = "schedule" /\ ~sel_last.resolvedBefore)
    => LET ca == sel_last.scheduled[1]
           cb == sel_last.scheduled[2]
       IN /\ Len(sel_last.scheduled) = 2
          /\ ca.side = "A" /\ cb.side = "B"
          /\ ca.w = sel_last.w /\ cb.w = sel_last.w
          /\ a_tokens = ca.tokens /\ b_tokens = cb.tokens
          /\ Covers(sel_last.tokens, ca.tokens) /\ Covers(sel_last.tokens, cb.tokens)
          /\ sel_last.tokens.all = (ca.tokens.all \/ cb.tokens.all)
          /\ ~sel_last.tokens.all =>
                sel_last.tokens.ids = ca.tokens.ids \cup cb.tokens.ids

\* C17 witness: two pending promises with the ids 0 and 1 were scheduled
\* through the Select, which returned {0, 1}.
C17_Witness ==
    /\ sel_last.on = "select" /\ sel_last.op = "schedule"
    /\ kids["A"].kind = "Promise" /\ kids["B"].kind = "Promise"
    /\ a_tokens = [all |-> FALSE, ids |-> {0}]
    /\ b_tokens = [all |-> FALSE, ids |-> {1}]
    /\ sel_last.tokens = [all |-> FALSE, ids |-> {0, 1}]

\* C18: once a poll of the Select has returned Some, every later poll of it
\* returns Some(Err(Panicked(Reused))) and polls no child; the Select holds
\* no child any more, the loser is held by the SelectNext or dropped.
C18_SelectOnce ==
    /\ (sel_last.on = "select" /\ sel_last.op = "poll" /\ sel_last.resolvedBefore)
          => /\ sel_last.ret = [kind |-> "Reused", val |-> 0, next |-> "none"]
             /\ sel_last.polled = <<>>
             /\ sel_last.kidsAfter = sel_last.kidsBefore
    /\ (SelectPolled /\ sel_last.ret.kind # "None")
          => \A s \in Sides : sel_last.holdAfter[s] # "select" /\ holder[s] # "select"

\* C18 witness: a resolved Select whose loser sits in the SelectNext was
\* polled again and returned Reused.
C18_Witness ==
    /\ sel_last.on = "select" /\ sel_last.op = "poll" /\ sel_last.resolvedBefore
    /\ sel_last.ret.kind = "Reused"
    /\ NextSides # {}

\* C19: a poll of an unresolved Select with Tokens::all(), or with any
\* tokens when the Select was never scheduled, polls child A, and polls
\* child B when A returned None.
C19_AllNeverSkips ==
    (SelectPolled /\ (sel_last.arg.all \/ ~sel_last.schedBefore))
    => /\ Len(sel_last.polled) >= 1 /\ sel_last.polled[1].side = "A"
       /\ sel_last.polled[1].ret = RetNone =>
             (Len(sel_last.polled) = 2 /\ sel_last.polled[2].side = "B")

\* C19 witness: with {0} and {1} cached, a poll with Tokens::all() polled A,
\* which returned None, and then B.
C19_Witness ==
    /\ SelectPolled /\ sel_last.arg.all /\ sel_last.schedBefore
    /\ a_tokens = [all |-> FALSE, ids |-> {0}]
    /\ b_tokens = [all |-> FALSE, ids |-> {1}]
    /\ Len(sel_last.polled) = 2

\* The call on record is a tailcall that follows a tailcall of the same
\* future.
TailcallTwice(on) ==
    /\ sel_last.on = on /\ sel_last.op = "tailcall"
    /\ sel_last.prev.on = on /\ sel_last.prev.op = "tailcall"

\* C20: tailcall is idempotent for Done, Failed, Promise, Select and
\* SelectNext: a tailcall that follows a tailcall returns the same answer,
\* None again or Some of the same future, and leaves the future as the first
\* one left it.
C20_TailcallIdempotent ==
    /\ done_last.op = "tailcall" => done_last.tail = "None"
    /\ failed_last.op = "tailcall" => failed_last.tail = "None"
    /\ \A s \in Sides :
          kids[s].kind = "Promise" => Collapsed_collapse(kids[s]) = kids[s]
    /\ (TailcallTwice("select") \/ TailcallTwice("next")) =>
          /\ sel_last.tail = sel_last.prev.tail
          /\ sel_last.handed = sel_last.prev.handed
          /\ sel_last.kidsAfter = sel_last.kidsBefore

\* The call on record is a tailcall of the SelectNext; the side it wraps.
NextTailcalled == sel_last.on = "next" /\ sel_last.op = "tailcall"
NextSide == CHOOSE s \in Sides : sel_last.holdAfter[s] = "next"
\* Two futures answer every poll alike.
SameResult(f, g) ==
    \A tk \in PollTokens : Collapsed_poll(f, tk).ret = Collapsed_poll(g, tk).ret

\* C21: SelectNext.tailcall returns Some(g) exactly when the child it wraps
\* is a Tail after collapsing, and g then resolves as the SelectNext would
\* have; otherwise it returns None, hands out nothing, and the SelectNext
\* goes on resolving as its child does.
C21_NextTailcall ==
    NextTailcalled =>
        LET c == sel_last.kidsBefore[NextSide]
        IN /\ (sel_last.tail = "Some") = (Collapsed_collapse(c).form = "Tail")
           /\ sel_last.tail \in {"Some", "None"}
           /\ sel_last.tail = "Some" => SameResult(sel_last.handed, c)
           /\ sel_last.tail = "None" =>
                 /\ sel_last.handed = NoFuture
                 /\ SameResult(sel_last.kidsAfter[NextSide], c)

\* C21 witness: the SelectNext wrapped a combinator in its second stage
\* that forwards to done(Ok(2)); tailcall handed that Done out.
C21_Witness ==
    /\ NextTailcalled /\ sel_last.tail = "Some"
    /\ sel_last.kidsBefore[NextSide].wrap
    /\ sel_last.handed.kind = "Done" /\ sel_last.handed.opt = ProdOk(2)

\* C22: when the closure of a map or of a map_err is not used (a map over
\* a future that resolved with an error, a map_err over one that resolved
\* with success), it has been dropped by the time the closure of the
\* combinator above it runs.
C22_UnusedClosureDropped ==
    (ch_seen[2].called /\ ch_kinds.k1 \in {"map", "map_err"} /\ ~ch_seen[1].called)
    => ~ch_seen[2].upHeld /\ ch_f[1] = "dropped"

\* C22 witness: failed(e).map(f).map_err(g): g ran after f had been dropped
\* uninvoked.
C22_Witness ==
    /\ ch_kinds = [src |-> "Failed", k1 |-> "map", k2 |-> "map_err"]
    /\ ch_seen[2].called /\ ~ch_seen[2].upHeld
    /\ ch_f = <<"dropped", "called">>

\* C23: the closure of an and_then is invoked only after the first future
\* has resolved, with success, and has been dropped with the data it owns.
C23_AndThenDropsFirst ==
    /\ (ch_kinds.k1 = "and_then" /\ ch_seen[1].called) =>
          /\ ~ch_seen[1].srcAlive
          /\ ch_seen[1].srcFin /\ ch_seen[1].arg.kind = "Ok"
    /\ (ch_kinds.k1 = "and_then" /\ ~ch_src.fin) => ch_f[1] = "held"

\* C23 witness: the and_then closure ran on the value a Complete had
\* finished a promise with, the promise and its data gone.
C23_Witness ==
    /\ ch_kinds.src = "Promise" /\ ch_kinds.k1 = "and_then"
    /\ ch_seen[1].called /\ ~ch_seen[1].srcAlive
    /\ ch_seen[1].arg = RetOk(1)

\* C24: a poll that finds pending_wake set returns None and leaves the slot
\* as it is, full or empty; so a poll reaches try_consume only with
\* pending_wake clear, and no poll hands out the result while a schedule's
\* flag is still set.
C24_GatedPoll ==
    /\ [](dpc = "poll_consume" => ~pending_wake)
    /\ [][(dpc = "idle" /\ pending_wake /\ Len(polls') = Len(polls) + 1)
            => (slot' = slot /\ polls'[Len(polls')].ret = RetNone
                /\ used' = used /\ dpc' = "idle")]_vars

\* C24 witness: a poll made after the production, with the slot full, found
\* pending_wake set and returned None; the slot is still full.
C24_Witness ==
    /\ Len(polls) >= 1
    /\ polls[Len(polls)].gated /\ polls[Len(polls)].prodAtStart
    /\ polls[Len(polls)].ret = RetNone
    /\ slot # SlotEmpty /\ dpc = "idle" /\ ~used

\* C25: a poll of an unresolved Select whose a_tokens cannot contain the
\* tokens given polls B alone, with tokens & b_tokens; otherwise it polls A
\* with tokens & a_tokens and, when A returned None, polls B with tokens &
\* b_tokens if b_tokens may contain the tokens and returns None without
\* polling B if not.
C25_TokenFilter ==
    SelectPolled =>
        LET tk == sel_last.arg
            p == sel_last.polled
        IN IF ~TokensMayContain(a_tokens, tk)
           THEN /\ Len(p) = 1 /\ p[1].side = "B"
                /\ p[1].arg = TokensAnd(tk, b_tokens)
           ELSE /\ Len(p) >= 1 /\ p[1].side = "A"
                /\ p[1].arg = TokensAnd(tk, a_tokens)
                /\ p[1].ret # RetNone => Len(p) = 1
                /\ (p[1].ret = RetNone /\ TokensMayContain(b_tokens, tk)) =>
                      /\ Len(p) = 2 /\ p[2].side = "B"
                      /\ p[2].arg = TokensAnd(tk, b_tokens)
                /\ (p[1].ret = RetNone /\ ~TokensMayContain(b_tokens, tk)) =>
                      Len(p) = 1 /\ sel_last.ret.kind = "None"

\* C25 witness: with {0} and {1} cached and B's promise already completed,
\* a poll with {0} polled A, which returned None, and returned None without
\* polling B.
C25_Witness ==
    /\ SelectPolled
    /\ a_tokens = [all |-> FALSE, ids |-> {0}]
    /\ b_tokens = [all |-> FALSE, ids |-> {1}]
    /\ sel_last.arg = [all |-> FALSE, ids |-> {0}]
    /\ Len(sel_last.polled) = 1 /\ sel_last.polled[1].side = "A"
    /\ sel_last.ret.kind = "None"
    /\ kids["B"].fin

\* The step is a tailcall of the Select.
SelectTailcallStep ==
    sel_n' = sel_n + 1 /\ sel_last'.on = "select" /\ sel_last'.op = "tailcall"

\* C26: a tailcall of the Select returns None whatever its state.  On an
\* unresolved Select it leaves each child collapsed in place: the Select
\* holds the same two children, a_tokens and b_tokens are unchanged, each
\* child answers polls and schedules as before, and so does the Select.
\* On a resolved Select nothing changes.
C26_SelectTailcall ==
    [][SelectTailcallStep =>
         /\ sel_last'.tail = "None" /\ sel_last'.handed = NoFuture
         /\ sel_inner' = sel_inner /\ holder' = holder
         /\ a_tokens' = a_tokens /\ b_tokens' = b_tokens
         /\ sel_inner = "Some" =>
               /\ \A s \in Sides :
                     /\ kids'[s] = Collapsed_collapse(kids[s])
                     /\ kids'[s].form = "Start" => kids'[s] = kids[s]
                     /\ SameResult(kids'[s], kids[s])
                     /\ \A w \in Wakers :
                           /\ Collapsed_schedule(kids'[s], w).tokens
                                 = Collapsed_schedule(kids[s], w).tokens
                           /\ Collapsed_schedule(kids'[s], w).wakes
                                 = Collapsed_schedule(kids[s], w).wakes
               /\ \A tk \in PollTokens :
                     /\ Select_poll_match(tk)'.ret = Select_poll_match(tk).ret
                     /\ Select_poll_match(tk)'.win = Select_poll_match(tk).win
                     /\ Select_poll_match(tk)'.polled = Select_poll_match(tk).polled
         /\ sel_inner = "None" => kids' = kids]_vars

\* C26 witness: a tailcall of an unresolved Select turned child B, a
\* combinator in its second stage, from Start into Tail and returned None.
C26_Witness ==
    /\ sel_last.on = "select" /\ sel_last.op = "tailcall"
    /\ ~sel_last.resolvedBefore /\ sel_inner = "Some"
    /\ sel_last.kidsBefore["B"].form = "Start" /\ sel_last.kidsBefore["B"].wrap
    /\ sel_last.kidsAfter["B"].form = "Tail" /\ kids["B"].kind = "Done"
    /\ sel_last.tail = "None"

\* C27: a Complete produces into the slot once over its lifetime, by
\* finish, by fail or by its drop: never twice, and once its drop has run
\* not zero times; no try_produce finds the slot full and no on_empty
\* callback is queued.
C27_ProducesOnce ==
    /\ prodCount <= 1
    /\ ~fullOnProduce /\ on_empty = SlotEmpty
    /\ prodCount = (IF produced THEN 1 ELSE 0)
    /\ produced = (outcome.kind # "none")
    /\ cpc = "done" => (dropRan /\ prodCount = 1)

\* C27 witness: finish(1) produced, a poll consumed the value and emptied
\* the slot, and the drop of the handle ran after that without producing.
C27_Witness ==
    /\ cpc = "done" /\ dropRan /\ completed
    /\ outcome = [kind |-> "finish", val |-> 1]
    /\ slot = SlotEmpty /\ used
    /\ prodCount = 1

\* The callbacks a thread at pc, running the callbacks cbs, has yet to run
\* up to their store to pending_wake.
Clearing(pc, cbs) ==
    IF pc = "cb1" THEN Len(cbs) ELSE IF pc = "cb2" THEN Len(cbs) - 1 ELSE 0

\* C28: while the Promise is alive and no schedule call is in progress, a
\* set pending_wake comes with exactly one on_full callback of the Promise
\* that is armed on the slot or taken by a thread and about to store false:
\* the flag is never set with nothing left to clear it.
C28_ArmedWhilePending ==
    (created /\ p_alive /\ d_op # "schedule" /\ pending_wake)
    => Cardinality(on_full) + Clearing(cpc, c_cb) + Clearing(dpc, d_cb) = 1

\* C28 witness: after two schedule calls the completer has produced and
\* taken the one armed callback, which has not stored to pending_wake yet.
C28_Witness ==
    /\ created /\ p_alive /\ d_op = "none" /\ pending_wake
    /\ Len(calls) = 2 /\ calls[2].returned
    /\ on_full = {} /\ cpc = "cb1" /\ Len(c_cb) = 1
    /\ Head(c_cb).call = 2

\* A child that answers Some to a poll; the call on record is a poll of the
\* unresolved Select that found both children ready and did not skip A.
Ready(c) == IsSome(Collapsed_poll(c, TokensAll).ret)
BothReady ==
    /\ SelectPolled
    /\ Ready(sel_last.kidsBefore["A"]) /\ Ready(sel_last.kidsBefore["B"])
    /\ TokensMayContain(a_tokens, sel_last.arg)
ResultOfA == Collapsed_poll(sel_last.kidsBefore["A"], sel_last.arg).ret
\* A poll of the SelectNext returns what the child it wraps answers.
NextPassesOn ==
    NextPolled =>
        LET r == Collapsed_poll(sel_last.kidsBefore[NextSide], sel_last.arg).ret
        IN sel_last.ret = [kind |-> r.kind, val |-> r.val, next |-> "none"]

\* The statement C29 as given: with both children ready and A not skipped,
\* the Select resolves with A's result without polling B, and B, untouched,
\* is in the SelectNext returned, whose poll returns B's result.
C29_LoserNeverLost ==
    /\ BothReady =>
          /\ Len(sel_last.polled) = 1 /\ sel_last.polled[1].side = "A"
          /\ sel_last.ret.kind = ResultOfA.kind /\ sel_last.ret.val = ResultOfA.val
          /\ sel_last.ret.next = "B" /\ sel_last.holdAfter["B"] = "next"
          /\ sel_last.kidsAfter["B"] = sel_last.kidsBefore["B"]
    /\ NextPassesOn

\* C29: with both children ready and A not skipped, the Select resolves
\* with A's result without polling B.  When that result is Ok or Other, B,
\* untouched, is in the SelectNext returned, whose poll returns B's result;
\* when it is Panicked there is no SelectNext and B is dropped.
C29_BothReadyPrefersA ==
    /\ BothReady =>
          /\ Len(sel_last.polled) = 1 /\ sel_last.polled[1].side = "A"
          /\ sel_last.ret.kind = ResultOfA.kind /\ sel_last.ret.val = ResultOfA.val
          /\ ResultOfA.kind \in {"Ok", "Other"} =>
                /\ sel_last.ret.next = "B" /\ sel_last.holdAfter["B"] = "next"
                /\ sel_last.kidsAfter["B"] = sel_last.kidsBefore["B"]
          /\ ResultOfA.kind \notin {"Ok", "Other"} =>
                /\ sel_last.ret.next = "none"
                /\ sel_last.holdAfter["B"] = "dropped"
    /\ NextPassesOn

\* C29 witness: done(Ok(1)).select(done(Ok(2))) was polled and returned
\* Ok((1, next)); B, not polled, still holds Ok(2) inside the SelectNext.
C29_Witness ==
    /\ BothReady
    /\ sel_last.ret = [kind |-> "Ok", val |-> 1, next |-> "B"]
    /\ kids["B"].kind = "Done" /\ kids["B"].opt = ProdOk(2)
    /\ holder["B"] = "next"

\* C30: schedule and tailcall calls leave the result stored in a Done and
\* in a Failed as it is: before the first poll the field holds what the
\* future was made with and the first poll returns it; after it the field
\* is empty whatever calls follow, and later polls return Reused.
C30_ResultUntouched ==
    /\ (leaf_polls = 0 /\ done_r # Unmade) => done_inner = done_r
    /\ (leaf_polls = 0 /\ failed_arg # Unmade) => failed_e = failed_arg
    /\ leaf_polls > 0 => (done_inner = ProdNone /\ failed_e = ProdNone)
    /\ (done_last.op = "poll" /\ done_last.nth = 1) =>
          /\ done_last.ret = Mapped(done_r)
          /\ failed_last.ret = RetOther(failed_arg.val)
    /\ (done_last.op = "poll" /\ done_last.nth > 1) =>
          (done_last.ret = RetReused /\ failed_last.ret = RetReused)

\* C30 witness: after two calls that were schedule or tailcall, the first
\* poll of done(Ok(2)) returned Ok(2) and that of failed(1) Other(1).
C30_Witness ==
    /\ leaf_n = 3 /\ leaf_polls = 1
    /\ done_r = ProdOk(2) /\ failed_arg = SomeE(1)
    /\ done_last.op = "poll" /\ done_last.ret = RetOk(2)
    /\ failed_last.ret = RetOther(1)

====
